---- MODULE Spec2Model ----
(***************************************************************************)
(* Billing / usage-enforcement layer of the ClockWork backend.             *)
(*                                                                         *)
(* The relational tables (specialists, clients, scheduled_tasks,           *)
(* billing_events, invoices) are the state; every Express middleware,      *)
(* route handler, webhook handler, BillingService method and scheduled job *)
(* is an action.  Time is counted in days.                                 *)
(*                                                                         *)
(* SQL statements are modelled by their relational meaning over the        *)
(* columns they read and write.  Express, PostgreSQL, the Stripe SDK and   *)
(* the e-mail service are the environment.                                 *)
(*                                                                         *)
(* Two things the sources leave to the deployment are taken as working:    *)
(* the SELECT of BillingService.checkClientLimits names bt.tier_id, a      *)
(* column the migration does not create, and billingRestrictions.js uses   *)
(* the identifier stripe without requiring the SDK and reads req.rawBody,   *)
(* which a raw-body middleware has to set.  Methods that a class           *)
(* calls but does not define (sendCancellationEmail, sendRetentionEmail,   *)
(* sendPaymentFailedEmail, downgradePlan, cancelSubscription of the task   *)
(* runner) throw where they are called, after the writes that precede.     *)
(***************************************************************************)
EXTENDS Integers, Sequences, FiniteSets, TLC

\* ------------------------------------------------------------------ bounds

\* Rows the clients table may hold.
MaxClients == 2

\* client_limit of the 'starter' tier in billing_tiers (10 in the migration,
\* scaled down; the other finite tiers keep their order above it).
StarterLimit == 1

ProfessionalLimit == StarterLimit + 1

ScaleLimit == ProfessionalLimit + 1

\* Number of times the clock may advance.
MaxTicks == 2

\* ---------------------------------------------------------------- constants

\* client_limit = -1 means unlimited.
Unlimited == -1

\* SQL NULL of a TIMESTAMP column and of an id column.
NullTime == -1

NullId == 0

NullText == "NULL"

\* INTERVAL '7 days' between scheduling and executing an automatic archive.
ArchiveDelayDays == 7

\* Specialists known to the application (req.user.id ranges over UserIds;
\* an authenticated user need not have a specialists row).
UserIds == {1, 2}

ClientIds == 1..MaxClients

TierIds == {"starter", "professional", "scale", "enterprise"}

\* billing_tiers.client_limit
ClientLimitOf(tier) ==
    CASE tier = "starter"      -> StarterLimit
      [] tier = "professional" -> ProfessionalLimit
      [] tier = "scale"        -> ScaleLimit
      [] tier = "enterprise"   -> Unlimited

\* billing_tiers.name
TierNameOf(tier) ==
    CASE tier = "starter"      -> "Starter"
      [] tier = "professional" -> "Professional"
      [] tier = "scale"        -> "Scale"
      [] tier = "enterprise"   -> "Enterprise"

VARIABLES
    specialists,      \* specialists table: id -> row
    clients,          \* clients table: id -> row
    scheduled_tasks,  \* scheduled_tasks table: id -> row
    billing_events,   \* billing_events table: id -> row
    invoices,         \* invoices table: id -> row
    serial,           \* SERIAL sequences of the tables whose rows can be deleted
    stripe,           \* the processor's subscriptions: id -> metadata
    requests,         \* in-flight / last request of each HTTP worker slot
    sweeps,           \* runs of runPendingTasks: the batch read, the position in it
    now,              \* NOW(), in days
    ticks,            \* how often the clock advanced
    accounts,         \* users, roles, permissions and migrations tables, and
                      \* the transaction under way on the pooled connection
    runner            \* the ScheduledTasksRunner: its job map, the cron jobs
                      \* that are scheduled, and the invoices a run of
                      \* checkOverdueInvoices has selected and not yet marked

db == <<specialists, clients, scheduled_tasks, billing_events, invoices, serial>>

vars == <<specialists, clients, scheduled_tasks, billing_events, invoices, serial,
          stripe, requests, sweeps, now, ticks, accounts, runner>>

\* ------------------------------------------------------------------ rows

\* Column defaults of the billing columns added to specialists.
NewSpecialist ==
    [ billing_tier_id        |-> "starter",
      stripe_customer_id     |-> NullId,
      stripe_subscription_id |-> NullId,
      subscription_status    |-> "trialing",
      is_restricted          |-> FALSE,
      restriction_reason     |-> NullText,
      restricted_at          |-> NullTime,
      client_count           |-> 0,
      cancellation_date      |-> NullTime,
      trial_ends_at          |-> NullTime ]

\* Column defaults of a clients row.
NewClient(owner, t) ==
    [ specialist_id      |-> owner,
      is_active          |-> TRUE,
      is_archived        |-> FALSE,
      archived_at        |-> NullTime,
      archived_reason    |-> NullText,
      last_activity      |-> t,
      marked_for_cleanup |-> FALSE ]

\* SELECT COUNT(*) FROM clients WHERE specialist_id = s AND is_active = true
ActiveCount(cl, s) ==
    Cardinality({c \in DOMAIN cl : cl[c].specialist_id = s /\ cl[c].is_active})

\* Variant of UpdateClientCount that recomputes the count on INSERT only
\* (the UPDATE branch of the trigger's condition is missing).
UpdateClientCount_InsertOnly(sp, old, new) ==
    LET owners == {new[c].specialist_id : c \in DOMAIN new \ DOMAIN old}
    IN  [s \in DOMAIN sp |->
            IF s \in owners
            THEN [sp[s] EXCEPT !.client_count = ActiveCount(new, s)]
            ELSE sp[s]]

\* Trigger update_specialist_client_count, fired for each row c of the
\* statement: recompute the owner's client_count after an INSERT, or after an
\* UPDATE that changed is_active.
UpdateClientCount(sp, old, new) ==
    LET touched == {c \in DOMAIN new :
                       \/ c \notin DOMAIN old
                       \/ new[c].is_active # old[c].is_active}
        owners  == {new[c].specialist_id : c \in touched}
    IN  [s \in DOMAIN sp |->
            IF s \in owners
            THEN [sp[s] EXCEPT !.client_count = ActiveCount(new, s)]
            ELSE sp[s]]

\* -------------------------------------------------- BillingService (service)

\* Variant of AtOrOverLimit that lets an account sitting exactly at its
\* limit through ('>' for '>=').
AtOrOverLimit_Strict(sp, cl, s) ==
    /\ ClientLimitOf(sp[s].billing_tier_id) # Unlimited
    /\ ActiveCount(cl, s) > ClientLimitOf(sp[s].billing_tier_id)

\* checkClientLimits: the comparison of line 63.
AtOrOverLimit(sp, cl, s) ==
    /\ ClientLimitOf(sp[s].billing_tier_id) # Unlimited
    /\ ActiveCount(cl, s) >= ClientLimitOf(sp[s].billing_tier_id)

\* Variant of CheckClientLimitsWrite that marks the account without a reason
\* code.
CheckClientLimitsWrite_NoReason(sp, cl, s, t) ==
    IF AtOrOverLimit(sp, cl, s)
    THEN [sp EXCEPT ![s].is_restricted = TRUE, ![s].restricted_at = t]
    ELSE sp

\* Variant of CheckClientLimitsWrite that lifts the restriction when the
\* account is found below its limit.
CheckClientLimitsWrite_ClearsBelow(sp, cl, s, t) ==
    IF AtOrOverLimit(sp, cl, s)
    THEN [sp EXCEPT ![s].is_restricted = TRUE,
                    ![s].restriction_reason = "client_limit_exceeded",
                    ![s].restricted_at = t]
    ELSE [sp EXCEPT ![s].is_restricted = FALSE,
                    ![s].restriction_reason = NullText,
                    ![s].restricted_at = NullTime]

\* checkClientLimits: the specialists table after the call (the flag is
\* written only in the at-or-over-limit branch).
CheckClientLimitsWrite(sp, cl, s, t) ==
    IF AtOrOverLimit(sp, cl, s)
    THEN [sp EXCEPT ![s].is_restricted = TRUE,
                    ![s].restriction_reason = "client_limit_exceeded",
                    ![s].restricted_at = t]
    ELSE sp

\* checkClientLimits: the returned object.
CheckClientLimitsResult(sp, cl, s) ==
    [ restricted  |-> AtOrOverLimit(sp, cl, s),
      clientCount |-> ActiveCount(cl, s),
      limit       |-> ClientLimitOf(sp[s].billing_tier_id) ]

\* Variant of clearRestrictions that leaves restricted_at as it was.
ClearRestrictions_KeepsTimestamp(sp, s) ==
    IF s \in DOMAIN sp
    THEN [sp EXCEPT ![s].is_restricted = FALSE,
                    ![s].restriction_reason = NullText]
    ELSE sp

\* clearRestrictions
ClearRestrictions(sp, s) ==
    IF s \in DOMAIN sp
    THEN [sp EXCEPT ![s].is_restricted = FALSE,
                    ![s].restriction_reason = NullText,
                    ![s].restricted_at = NullTime]
    ELSE sp

\* ------------------------------------------------------- client routes

\* URL paths are sequences of segments; a numeric segment is DigitSeg and its
\* value travels in the request's id field.
DigitSeg == "<digits>"

ClientsMount == <<"api", "clients">>

\* The requests the model issues against the /api/clients mount.
ClientRequests ==
    { [method |-> "POST", url |-> <<"api", "clients">>],
      [method |-> "GET",  url |-> <<"api", "clients">>],
      [method |-> "PUT",  url |-> <<"api", "clients", DigitSeg, "activate">>],
      [method |-> "POST", url |-> <<"api", "clients", "import">>],
      [method |-> "POST", url |-> <<"api", "clients", "archive">>] }

\* req.path inside a middleware mounted with app.use(mount, ...): Express
\* strips the mount point from req.url, and req.path is read from req.url.
ReqPath(mount, url) == SubSeq(url, Len(mount) + 1, Len(url))

\* restrictedEndpoints of enforceRestrictions: string paths compare with
\* ===, the RegExp matches /api/clients/<digits>/activate.
RestrictedEndpoints ==
    { [method |-> "POST", path |-> <<"api", "clients">>],
      [method |-> "PUT",  path |-> <<"api", "clients", DigitSeg, "activate">>],
      [method |-> "POST", path |-> <<"api", "clients", "import">>],
      [method |-> "POST", path |-> <<"api", "clients", "bulk">>] }

\* enforceRestrictions: isRestricted, the some(...) over restrictedEndpoints.
MatchesRestrictedEndpoint(method, path) ==
    \E e \in RestrictedEndpoints : method = e.method /\ path = e.path

\* checkClientLimits (middleware): the condition of lines 212-213.
NeedsLimitCheck(method, path) ==
    \/ method = "POST"
    \/ (method = "PUT" /\ \E i \in DOMAIN path : path[i] = "activate")

\* A request slot: the request being processed (pc says which middleware or
\* handler runs next), or, when idle, the response that was sent last.
\* req.billing before enforceRestrictions has assigned it (undefined), and the
\* response headers before addBillingHeaders has set any.
NoBilling ==
    [ defined |-> FALSE, tierName |-> NullText, clientLimit |-> 0,
      clientCount |-> 0, isRestricted |-> FALSE, restrictionReason |-> NullText ]

NoHeaders ==
    [ sent |-> FALSE, tier |-> NullText, count |-> NullText, limit |-> NullText,
      restricted |-> NullText ]

IdleRequest ==
    [ pc |-> "idle", user |-> 0, method |-> "GET", url |-> <<>>, id |-> NullId,
      signature |-> FALSE, status |-> 0, upgrade_url |-> FALSE,
      handled |-> FALSE, billing |-> NoBilling, headers |-> NoHeaders ]

\* res.status(code).json(...): the request is over.
Respond(code, upgrade, ran) ==
    [IdleRequest EXCEPT !.status = code, !.upgrade_url = upgrade, !.handled = ran]

\* The response to req: it goes out with the headers set on res so far.
RespondTo(req, code, upgrade, ran) ==
    [Respond(code, upgrade, ran) EXCEPT !.headers = req.headers]

\* enforceRestrictions: req.billing = { tierName, clientLimit, ... } from the
\* specialists row joined with its tier.
BillingOf(s) ==
    [ defined |-> TRUE,
      tierName |-> TierNameOf(specialists[s].billing_tier_id),
      clientLimit |-> ClientLimitOf(specialists[s].billing_tier_id),
      clientCount |-> specialists[s].client_count,
      isRestricted |-> specialists[s].is_restricted,
      restrictionReason |-> specialists[s].restriction_reason ]

\* Middleware addBillingHeaders, mounted with app.use('/api', ...) after
\* authenticateToken and trackUsage and before the routers: res.set of the
\* four headers if req.billing is set, then next().
AddBillingHeaders(req) ==
    IF req.billing.defined
    THEN [req EXCEPT !.headers =
            [ sent |-> TRUE, tier |-> req.billing.tierName,
              count |-> ToString(req.billing.clientCount),
              limit |-> IF req.billing.clientLimit = Unlimited
                        THEN "unlimited"
                        ELSE ToString(req.billing.clientLimit),
              restricted |-> IF req.billing.isRestricted
                             THEN "true" ELSE "false" ]]
    ELSE req

\* Requests on the client routes that can be under way at the same time:
\* every await of a middleware or handler lets another request run.
ReqSlots == {1, 2}

\* A request on the client routes arrives: after authenticateToken it passes
\* addBillingHeaders and then enters the middlewares of /api/clients.
ReqArrive(r, u, q, c) ==
    /\ requests[r].pc = "idle"
    /\ q \in ClientRequests
    /\ requests' = [requests EXCEPT ![r] = AddBillingHeaders(
          [IdleRequest EXCEPT !.pc = "checkClientLimits", !.user = u,
                              !.method = q.method, !.url = q.url,
                              !.id = IF DigitSeg \in {q.url[i] : i \in DOMAIN q.url}
                                     THEN c ELSE NullId])]
    /\ UNCHANGED <<db, stripe, sweeps, now, ticks, accounts, runner>>

\* Middleware checkClientLimits.
CheckClientLimitsMw(r) ==
    LET req  == requests[r]
        path == ReqPath(ClientsMount, req.url)
    IN  /\ req.pc = "checkClientLimits"
        /\ IF ~NeedsLimitCheck(req.method, path)
           THEN /\ requests' = [requests EXCEPT ![r].pc = "enforceRestrictions"]
                /\ UNCHANGED specialists
           ELSE IF req.user \notin DOMAIN specialists
           THEN \* 'Specialist not found' is thrown and caught: 500
                /\ requests' = [requests EXCEPT ![r] = RespondTo(req, 500, FALSE, FALSE)]
                /\ UNCHANGED specialists
           ELSE /\ specialists' =
                       CheckClientLimitsWrite(specialists, clients, req.user, now)
                /\ IF CheckClientLimitsResult(specialists, clients, req.user).restricted
                   THEN requests' = [requests EXCEPT ![r] = RespondTo(req, 403, TRUE, FALSE)]
                   ELSE requests' = [requests EXCEPT ![r].pc = "enforceRestrictions"]
        /\ UNCHANGED <<clients, scheduled_tasks, billing_events, invoices, serial,
                       stripe, sweeps, now, ticks, accounts, runner>>

\* Middleware enforceRestrictions mounted at `mount`: the request as it
\* leaves the middleware (pc = "handler" when next() is called).
EnforceRestrictionsOn(req, mount) ==
    LET path == ReqPath(mount, req.url)
    IN  IF req.user \notin DOMAIN specialists
        THEN RespondTo(req, 404, FALSE, FALSE)
        ELSE IF ~specialists[req.user].is_restricted
        THEN [req EXCEPT !.pc = "handler", !.billing = BillingOf(req.user)]
        ELSE IF MatchesRestrictedEndpoint(req.method, path)
        THEN RespondTo(req, 403, TRUE, FALSE)
        ELSE [req EXCEPT !.pc = "handler", !.billing = BillingOf(req.user)]

EnforceRestrictionsMw(r) ==
    /\ requests[r].pc = "enforceRestrictions"
    /\ requests' = [requests EXCEPT ![r] =
                       EnforceRestrictionsOn(requests[r], ClientsMount)]
    /\ UNCHANGED <<db, stripe, sweeps, now, ticks, accounts, runner>>

\* Next free id of the clients table (SERIAL).
NextClientId == Cardinality(DOMAIN clients) + 1

\* Variant of the INSERT that writes the client only while the owner's active
\* count is below the limit of the tier.
InsertClient_ChecksLimit(u) ==
    IF u \in DOMAIN specialists /\ AtOrOverLimit(specialists, clients, u)
    THEN UNCHANGED <<specialists, clients>>
    ELSE LET new == [c \in DOMAIN clients \cup {NextClientId} |->
                        IF c \in DOMAIN clients THEN clients[c]
                        ELSE NewClient(u, now)]
         IN  /\ clients' = new
             /\ specialists' = UpdateClientCount(specialists, clients, new)

\* INSERT INTO clients ... for owner u, with the trigger.
InsertClient(u) ==
    LET new == [c \in DOMAIN clients \cup {NextClientId} |->
                   IF c \in DOMAIN clients THEN clients[c] ELSE NewClient(u, now)]
    IN  /\ clients' = new
        /\ specialists' = UpdateClientCount(specialists, clients, new)

\* UPDATE clients SET is_active = true, is_archived = false WHERE id = c AND
\* specialist_id = u, with the trigger.
ReactivateClient(u, c) ==
    LET new == [d \in DOMAIN clients |->
                   IF d = c /\ clients[d].specialist_id = u
                   THEN [clients[d] EXCEPT !.is_active = TRUE, !.is_archived = FALSE]
                   ELSE clients[d]]
    IN  /\ clients' = new
        /\ specialists' = UpdateClientCount(specialists, clients, new)

\* The route handlers of routes/clients.
ClientRouteHandler(r) ==
    LET req  == requests[r]
        path == ReqPath(ClientsMount, req.url)
    IN  /\ req.pc = "handler"
        /\ requests' = [requests EXCEPT ![r] = RespondTo(req, 200, FALSE, TRUE)]
        /\ CASE req.method = "POST" /\ path \in {<<>>, <<"import">>} ->
                  /\ NextClientId \in ClientIds
                  /\ InsertClient(req.user)
             [] req.method = "PUT" -> ReactivateClient(req.user, req.id)
             [] OTHER -> UNCHANGED <<specialists, clients>>
        /\ UNCHANGED <<scheduled_tasks, billing_events, invoices, serial, stripe, sweeps, now, ticks, accounts, runner>>

\* Application code outside the billing layer writes clients.last_activity:
\* the time of the activity, or NULL for a client stored without any.
SetLastActivity(c, t) ==
    /\ c \in DOMAIN clients
    /\ clients' = [clients EXCEPT ![c].last_activity = t]
    /\ UNCHANGED <<specialists, scheduled_tasks, billing_events, invoices, serial,
                   stripe, requests, sweeps, now, ticks, accounts, runner>>

\* -------------------------------------------------------- billing routes

BillingMount == <<"api", "billing">>

\* trial_period_days of the subscription createSubscription asks for.
TrialDays == 14

\* Subscriptions the processor may hold.
MaxSubs == 1

IsTier(tier) == tier \in TierIds

\* Variant of ArchiveRows that removes the matched rows (DELETE FROM clients
\* WHERE id = ANY(ids) AND specialist_id = u).
ArchiveRows_Delete(cl, ids, u, reason, t) ==
    [c \in {d \in DOMAIN cl : ~(d \in ids /\ cl[d].specialist_id = u)} |-> cl[c]]

\* Variant of ArchiveRows that also resets the archived rows' activity stamp.
ArchiveRows_ResetsActivity(cl, ids, u, reason, t) ==
    [c \in DOMAIN cl |->
        IF c \in ids /\ cl[c].specialist_id = u
        THEN [cl[c] EXCEPT !.is_active = FALSE, !.is_archived = TRUE,
                           !.archived_at = t, !.archived_reason = reason,
                           !.last_activity = NullTime]
        ELSE cl[c]]

\* Variant of ArchiveRows that matches on the ids alone (WHERE id = ANY(ids)).
ArchiveRows_AnyOwner(cl, ids, u, reason, t) ==
    [c \in DOMAIN cl |->
        IF c \in ids
        THEN [cl[c] EXCEPT !.is_active = FALSE, !.is_archived = TRUE,
                           !.archived_at = t, !.archived_reason = reason]
        ELSE cl[c]]

\* UPDATE clients SET is_active = false, is_archived = true,
\*   archived_at = NOW(), archived_reason = reason
\* WHERE id = ANY(ids) AND specialist_id = u
ArchiveRows(cl, ids, u, reason, t) ==
    [c \in DOMAIN cl |->
        IF c \in ids /\ cl[c].specialist_id = u
        THEN [cl[c] EXCEPT !.is_active = FALSE, !.is_archived = TRUE,
                           !.archived_at = t, !.archived_reason = reason]
        ELSE cl[c]]

\* POST /api/billing/archive-clients: enforceRestrictions (inside the billing
\* router, so req.path is '/archive-clients'), then the handler with its
\* UPDATE, the trigger, and the limit re-check.
ArchiveClientsRoute(u, ids) ==
    LET req     == [IdleRequest EXCEPT !.user = u, !.method = "POST",
                       !.url = <<"api", "billing", "archive-clients">>]
        new     == ArchiveRows(clients, ids, u, "manual_archive", now)
        counted == UpdateClientCount(specialists, clients, new)
    IN  /\ EnforceRestrictionsOn(req, BillingMount).pc = "handler"
        /\ clients' = new
        /\ specialists' = CheckClientLimitsWrite(counted, new, u, now)
        /\ UNCHANGED <<scheduled_tasks, billing_events, invoices, serial, stripe,
                       requests, sweeps, now, ticks, accounts, runner>>

\* Variant of createSubscription that stores the tier together with the
\* customer id, before the payment method is attached and the subscription
\* created.
CreateSubscription_WritesTierFirst(u, tier, fail) ==
    /\ u \in DOMAIN specialists
    /\ IsTier(tier)
    /\ LET hadCustomer  == specialists[u].stripe_customer_id # NullId
           withCustomer == [specialists EXCEPT ![u].stripe_customer_id =
                               IF hadCustomer THEN @ ELSE u,
                                              ![u].billing_tier_id = tier]
           sub          == Len(stripe) + 1
       IN  CASE fail = "customer" ->
                  /\ ~hadCustomer
                  /\ UNCHANGED <<specialists, stripe>>
             [] fail = "payment" ->
                  /\ specialists' = withCustomer
                  /\ UNCHANGED stripe
             [] fail = "none" ->
                  /\ sub <= MaxSubs
                  /\ stripe' = Append(stripe,
                        [ owner |-> u, tierId |-> tier, status |-> "trialing",
                          trial_end |-> now + TrialDays,
                          current_period_end |-> now + TrialDays ])
                  /\ specialists' = ClearRestrictions(
                        [withCustomer EXCEPT
                            ![u].billing_tier_id = tier,
                            ![u].stripe_subscription_id = sub,
                            ![u].subscription_status = "trialing",
                            ![u].is_restricted = FALSE,
                            ![u].restriction_reason = NullText], u)
    /\ UNCHANGED <<clients, scheduled_tasks, billing_events, invoices, serial,
                   requests, sweeps, now, ticks, accounts, runner>>

\* createSubscription(u, tier, paymentMethod).  fail names the processor call
\* that throws: "customer" (customers.create), "payment" (paymentMethods.attach,
\* customers.update or subscriptions.create), or "none".
CreateSubscription(u, tier, fail) ==
    /\ u \in DOMAIN specialists
    /\ IsTier(tier)
    /\ LET hadCustomer  == specialists[u].stripe_customer_id # NullId
           withCustomer == [specialists EXCEPT ![u].stripe_customer_id =
                               IF hadCustomer THEN @ ELSE u]
           sub          == Len(stripe) + 1
       IN  CASE fail = "customer" ->
                  /\ ~hadCustomer
                  /\ UNCHANGED <<specialists, stripe>>
             [] fail = "payment" ->
                  /\ specialists' = withCustomer
                  /\ UNCHANGED stripe
             [] fail = "none" ->
                  /\ sub <= MaxSubs
                  /\ stripe' = Append(stripe,
                        [ owner |-> u, tierId |-> tier, status |-> "trialing",
                          trial_end |-> now + TrialDays,
                          current_period_end |-> now + TrialDays ])
                  /\ specialists' = ClearRestrictions(
                        [withCustomer EXCEPT
                            ![u].billing_tier_id = tier,
                            ![u].stripe_subscription_id = sub,
                            ![u].subscription_status = "trialing",
                            ![u].is_restricted = FALSE,
                            ![u].restriction_reason = NullText], u)
    /\ UNCHANGED <<clients, scheduled_tasks, billing_events, invoices, serial,
                   requests, sweeps, now, ticks, accounts, runner>>

\* updateSubscription(u, newTier); fail = "stripe" when subscriptions.retrieve
\* or subscriptions.update throws.
UpdateSubscription(u, tier, fail) ==
    /\ u \in DOMAIN specialists
    /\ specialists[u].stripe_subscription_id # NullId
    /\ IsTier(tier)
    /\ LET sub == specialists[u].stripe_subscription_id
       IN  CASE fail = "stripe" -> UNCHANGED <<specialists, stripe>>
             [] fail = "none" ->
                  /\ stripe' = [stripe EXCEPT ![sub].tierId = tier]
                  /\ specialists' = CheckClientLimitsWrite(
                        [specialists EXCEPT ![u].billing_tier_id = tier],
                        clients, u, now)
    /\ UNCHANGED <<clients, scheduled_tasks, billing_events, invoices, serial,
                   requests, sweeps, now, ticks, accounts, runner>>

\* What the UPDATE of cancelSubscription stores when it binds n, the
\* processor's current_period_end, to the TIMESTAMP column cancellation_date.
\* The processor counts in epoch seconds and the statement passes the integer
\* as it is (the webhook handlers wrap such values in to_timestamp): the
\* database reads the digits as year, month and day, which it rejects
\* (CastError) or, when the last four digits happen to be a month and a day,
\* stores as a date of a remote year (MisreadDate).
CastError == -2

MisreadDate == 100000

TimestampParam(n) == {CastError, MisreadDate}

\* cancelSubscription(u, reason); fail = "stripe" when subscriptions.update
\* throws.  A rejected UPDATE leaves the row as it was.  After a successful
\* UPDATE the method calls this.sendCancellationEmail, which BillingService
\* does not define: the call throws once the row is written.
CancelSubscription(u, fail) ==
    /\ u \in DOMAIN specialists
    /\ specialists[u].stripe_subscription_id # NullId
    /\ LET sub == specialists[u].stripe_subscription_id
       IN  CASE fail = "stripe" -> UNCHANGED specialists
             [] fail = "none" ->
                  \E d \in TimestampParam(stripe[sub].current_period_end) :
                     specialists' =
                        IF d = CastError THEN specialists
                        ELSE [specialists EXCEPT
                                 ![u].subscription_status = "canceling",
                                 ![u].cancellation_date = d]
    /\ UNCHANGED <<clients, scheduled_tasks, billing_events, invoices, serial,
                   stripe, requests, sweeps, now, ticks, accounts, runner>>

\* enforceDataRetention
InactiveDays == 90

EnforceDataRetention ==
    /\ clients' = [c \in DOMAIN clients |->
          IF \E s \in DOMAIN specialists :
                /\ clients[c].specialist_id = s
                /\ specialists[s].subscription_status = "canceled"
                /\ specialists[s].cancellation_date # NullTime
                /\ specialists[s].cancellation_date < now - InactiveDays
          THEN [clients[c] EXCEPT !.marked_for_cleanup = TRUE]
          ELSE clients[c]]
    /\ specialists' = UpdateClientCount(specialists, clients, clients')
    /\ UNCHANGED <<scheduled_tasks, billing_events, invoices, serial, stripe,
                   requests, sweeps, now, ticks, accounts, runner>>

\* POST /api/billing/subscribe, as far as stripe.subscriptions.create: the
\* customer is created and saved if there was none, and the processor holds
\* the subscription.  Request r stays in createSubscription with the id of
\* the subscription until its UPDATE.
SubscribeAtProcessor(r, u, tier) ==
    /\ requests[r].pc = "idle"
    /\ u \in DOMAIN specialists
    /\ IsTier(tier)
    /\ Len(stripe) < MaxSubs
    /\ specialists' = [specialists EXCEPT ![u].stripe_customer_id =
                          IF @ # NullId THEN @ ELSE u]
    /\ stripe' = Append(stripe,
          [ owner |-> u, tierId |-> tier, status |-> "trialing",
            trial_end |-> now + TrialDays,
            current_period_end |-> now + TrialDays ])
    /\ requests' = [requests EXCEPT ![r] =
          [IdleRequest EXCEPT !.pc = "createSubscription", !.user = u,
                              !.method = "POST",
                              !.url = <<"api", "billing", "subscribe">>,
                              !.id = Len(stripe) + 1]]
    /\ UNCHANGED <<clients, scheduled_tasks, billing_events, invoices, serial,
                   sweeps, now, ticks, accounts, runner>>

\* UPDATE specialists SET billing_tier_id, stripe_subscription_id,
\*   subscription_status, is_restricted = false, restriction_reason = NULL
\* WHERE id = u, with the subscription the processor returned.
SubscribeUpdate(sp, u, sub) ==
    [sp EXCEPT ![u].billing_tier_id = stripe[sub].tierId,
               ![u].stripe_subscription_id = sub,
               ![u].subscription_status = stripe[sub].status,
               ![u].is_restricted = FALSE,
               ![u].restriction_reason = NullText]

\* The rest of POST /api/billing/subscribe: the UPDATE of createSubscription,
\* clearRestrictions, and the response of the route.
SubscribeWrite(r) ==
    LET req == requests[r]
    IN  /\ req.pc = "createSubscription"
        /\ specialists' = ClearRestrictions(
                              SubscribeUpdate(specialists, req.user, req.id),
                              req.user)
        /\ requests' = [requests EXCEPT ![r] = Respond(200, FALSE, TRUE)]
        /\ UNCHANGED <<clients, scheduled_tasks, billing_events, invoices, serial,
                       stripe, sweeps, now, ticks, accounts, runner>>

\* ------------------------------------------------------------ webhooks

EventTypes ==
    { "customer.subscription.created", "customer.subscription.updated",
      "customer.subscription.deleted", "invoice.payment_succeeded",
      "invoice.payment_failed", "charge.refunded" }

SubscriptionEvents ==
    { "customer.subscription.created", "customer.subscription.updated",
      "customer.subscription.deleted" }

\* Variant of the INSERT that logs only the events the switch has a case for.
LogEvent_HandledOnly(ev, s) ==
    IF ev.type = "charge.refunded"
    THEN UNCHANGED <<billing_events, serial>>
    ELSE /\ billing_events' =
               [e \in DOMAIN billing_events \cup {serial.events + 1} |->
                   IF e \in DOMAIN billing_events THEN billing_events[e]
                   ELSE [ specialist_id   |-> s,
                          event_type      |-> ev.type,
                          event_data      |-> IF ev.type \in SubscriptionEvents
                                              THEN ev.sub ELSE ev.invoice,
                          stripe_event_id |-> ev.id,
                          created_at      |-> now ]]
         /\ serial' = [serial EXCEPT !.events = @ + 1]

\* INSERT INTO billing_events (specialist_id, event_type, event_data,
\* stripe_event_id), created_at defaulting to NOW().  Of event_data the id of
\* the object the event is about is kept.
LogEvent(ev, s) ==
    /\ billing_events' =
          [e \in DOMAIN billing_events \cup {serial.events + 1} |->
              IF e \in DOMAIN billing_events THEN billing_events[e]
              ELSE [ specialist_id   |-> s,
                     event_type      |-> ev.type,
                     event_data      |-> IF ev.type \in SubscriptionEvents
                                         THEN ev.sub ELSE ev.invoice,
                     stripe_event_id |-> ev.id,
                     created_at      |-> now ]]
    /\ serial' = [serial EXCEPT !.events = @ + 1]

\* handleSubscriptionCreated: UPDATE ... WHERE stripe_subscription_id = sub,
\* then clearRestrictions(metadata.specialistId).
HandleSubscriptionCreated(sp, sub) ==
    ClearRestrictions(
        [s \in DOMAIN sp |->
            IF sp[s].stripe_subscription_id = sub
            THEN [sp[s] EXCEPT !.subscription_status = stripe[sub].status,
                               !.is_restricted = FALSE,
                               !.restriction_reason = NullText,
                               !.trial_ends_at = stripe[sub].trial_end]
            ELSE sp[s]],
        stripe[sub].owner)

\* Variant of handleSubscriptionUpdated that writes the tier and the status
\* and does not check the limit afterwards.
HandleSubscriptionUpdated_NoCheck(sp, sub, tier, status) ==
    [s \in DOMAIN sp |->
        IF sp[s].stripe_subscription_id = sub
        THEN [sp[s] EXCEPT !.billing_tier_id = tier,
                           !.subscription_status = status]
        ELSE sp[s]]

\* handleSubscriptionUpdated: UPDATE ... WHERE stripe_subscription_id = sub,
\* then checkClientLimits(metadata.specialistId).
HandleSubscriptionUpdated(sp, sub, tier, status) ==
    CheckClientLimitsWrite(
        [s \in DOMAIN sp |->
            IF sp[s].stripe_subscription_id = sub
            THEN [sp[s] EXCEPT !.billing_tier_id = tier,
                               !.subscription_status = status]
            ELSE sp[s]],
        clients, stripe[sub].owner, now)

\* Variant of handleSubscriptionDeleted that records the cancellation and
\* leaves the restriction columns alone.
HandleSubscriptionDeleted_StatusOnly(sp, sub) ==
    [s \in DOMAIN sp |->
        IF sp[s].stripe_subscription_id = sub
        THEN [sp[s] EXCEPT !.subscription_status = "canceled",
                           !.cancellation_date = now]
        ELSE sp[s]]

\* handleSubscriptionDeleted: the UPDATE (the call of sendRetentionEmail that
\* follows throws: BillingService defines no such method).
HandleSubscriptionDeleted(sp, sub) ==
    [s \in DOMAIN sp |->
        IF sp[s].stripe_subscription_id = sub
        THEN [sp[s] EXCEPT !.subscription_status = "canceled",
                           !.is_restricted = TRUE,
                           !.restriction_reason = "subscription_canceled",
                           !.cancellation_date = now]
        ELSE sp[s]]

\* Variant of handlePaymentFailed that sets the flag without a reason.
HandlePaymentFailed_FlagOnly(sp, customer) ==
    [s \in DOMAIN sp |->
        IF sp[s].stripe_customer_id = customer
        THEN [sp[s] EXCEPT !.is_restricted = TRUE, !.restricted_at = now]
        ELSE sp[s]]

\* handlePaymentFailed: the UPDATE ... WHERE stripe_customer_id = customer (the
\* call of sendPaymentFailedEmail that follows throws likewise).
HandlePaymentFailed(sp, customer) ==
    [s \in DOMAIN sp |->
        IF sp[s].stripe_customer_id = customer
        THEN [sp[s] EXCEPT !.is_restricted = TRUE,
                           !.restriction_reason = "payment_failed",
                           !.restricted_at = now]
        ELSE sp[s]]

\* handlePaymentSucceeded: UPDATE invoices ... WHERE stripe_invoice_id = inv
HandlePaymentSucceeded(iv, inv) ==
    [i \in DOMAIN iv |->
        IF iv[i].stripe_invoice_id = inv
        THEN [iv[i] EXCEPT !.status = "paid", !.paid_date = now]
        ELSE iv[i]]

\* Variant of the signature check that lets every delivery through.
ConstructEvent_AcceptsAll(ev) == TRUE

\* stripe.webhooks.constructEvent(rawBody, sig, secret) returns the event
\* (TRUE) or throws (FALSE).
ConstructEvent(ev) == ev.verified

\* The slot of requests that holds the last webhook call: whether its
\* stripe-signature header verifies, and the response.
WebhookSlot == 0

\* handleStripeWebhook for the delivery ev = [id, type, verified, sub, tier,
\* status, invoice, customer]: sub, tier and status are the id, metadata.tierId
\* and status of the subscription of a subscription event, invoice and
\* customer the invoice of an invoice event.  A delivery that fails
\* constructEvent is answered 400 before anything is written.  A handler that
\* throws (subscription.deleted and invoice.payment_failed, after their
\* UPDATE) leaves the call without a response: status 0.
HandleStripeWebhook(ev) ==
    /\ ev.type \in SubscriptionEvents => ev.sub \in DOMAIN stripe
    /\ IF ~ConstructEvent(ev)
       THEN /\ requests' = [requests EXCEPT ![WebhookSlot] =
                  [Respond(400, FALSE, FALSE) EXCEPT !.signature = ev.verified]]
            /\ UNCHANGED <<specialists, invoices, billing_events, serial>>
       ELSE /\ LogEvent(ev, IF ev.type \in SubscriptionEvents
                            THEN stripe[ev.sub].owner ELSE NullId)
            /\ CASE ev.type = "customer.subscription.created" ->
                      /\ specialists' = HandleSubscriptionCreated(specialists, ev.sub)
                      /\ UNCHANGED invoices
                 [] ev.type = "customer.subscription.updated" ->
                      /\ specialists' = HandleSubscriptionUpdated(specialists, ev.sub,
                                                                 ev.tier, ev.status)
                      /\ UNCHANGED invoices
                 [] ev.type = "customer.subscription.deleted" ->
                      /\ specialists' = HandleSubscriptionDeleted(specialists, ev.sub)
                      /\ UNCHANGED invoices
                 [] ev.type = "invoice.payment_succeeded" ->
                      /\ invoices' = HandlePaymentSucceeded(invoices, ev.invoice)
                      /\ UNCHANGED specialists
                 [] ev.type = "invoice.payment_failed" ->
                      /\ specialists' = HandlePaymentFailed(specialists, ev.customer)
                      /\ UNCHANGED invoices
                 [] OTHER -> UNCHANGED <<specialists, invoices>>
            /\ requests' = [requests EXCEPT ![WebhookSlot] =
                  [ (IF ev.type \in {"customer.subscription.deleted",
                                     "invoice.payment_failed"}
                     THEN Respond(0, FALSE, TRUE)
                     ELSE Respond(200, FALSE, TRUE))
                    EXCEPT !.signature = ev.verified ]]
    /\ UNCHANGED <<clients, scheduled_tasks, stripe, sweeps, now, ticks, accounts, runner>>

\* The tierId values requests and events carry.
SpecTiers == {"starter", "professional", "enterprise", "bogus"}

\* The deliveries the processor can make in the current state: new events
\* and redeliveries of logged ones.
Deliveries ==
    { [id |-> i, type |-> t, verified |-> v, sub |-> k, tier |-> m,
       status |-> "active", invoice |-> n, customer |-> n] :
         i \in {serial.events + 1} \cup {billing_events[e].stripe_event_id :
                                            e \in DOMAIN billing_events},
         t \in EventTypes, v \in BOOLEAN,
         k \in DOMAIN stripe \cup {NullId}, m \in SpecTiers \cap TierIds,
         n \in {1} }

\* An invoice is issued to specialist s (rows of invoices are written outside
\* the billing layer).
InvoiceIssued(s) ==
    /\ s \in DOMAIN specialists
    /\ invoices' = Append(invoices,
          [ specialist_id |-> s, stripe_invoice_id |-> Len(invoices) + 1,
            status |-> "pending", due_date |-> now, paid_date |-> NullTime ])
    /\ UNCHANGED <<specialists, clients, scheduled_tasks, billing_events, serial,
                   stripe, requests, sweeps, now, ticks, accounts, runner>>

\* ------------------------------------------------------ scheduled sweep

\* LIMIT 10 of runPendingTasks.
BatchLimit == 10

TaskRetentionDays == 90

EventRetentionDays == 365

NewTask(type, s, c, at) ==
    [ task_type |-> type, specialist_id |-> s, client_id |-> c,
      execute_at |-> at, executed_at |-> NullTime,
      status |-> "pending", result |-> NullText ]

\* INSERT INTO scheduled_tasks: the table and its sequence after inserting
\* one row per element of rows, in order.
RECURSIVE InsertTasks(_, _, _)
InsertTasks(tasks, n, rows) ==
    IF rows = <<>> THEN [tasks |-> tasks, n |-> n]
    ELSE InsertTasks(
            [t \in DOMAIN tasks \cup {n + 1} |->
                IF t \in DOMAIN tasks THEN tasks[t] ELSE Head(rows)],
            n + 1, Tail(rows))

\* The elements of the finite set S as a sequence in ascending order of
\* <<key[x], x>>.
RECURSIVE SortBy(_, _)
SortBy(S, key) ==
    IF S = {} THEN <<>>
    ELSE LET m == CHOOSE x \in S : \A y \in S :
                      \/ key[x] < key[y]
                      \/ (key[x] = key[y] /\ x <= y)
         IN  <<m>> \o SortBy(S \ {m}, key)

\* A task row is written by code outside the billing layer.
ScheduleTask(type, s, c, delay) ==
    LET ins == InsertTasks(scheduled_tasks, serial.tasks,
                           <<NewTask(type, s, c, now + delay)>>)
    IN  /\ s \in DOMAIN specialists
        /\ c \in DOMAIN clients \cup {NullId}
        /\ scheduled_tasks' = ins.tasks
        /\ serial' = [serial EXCEPT !.tasks = ins.n]
        /\ UNCHANGED <<specialists, clients, billing_events, invoices, stripe,
                       requests, sweeps, now, ticks, accounts, runner>>

IdleSweep == [pc |-> "idle", batch |-> <<>>]

\* Runs of runPendingTasks that can be under way at the same time: the cron
\* callback does not wait for the previous run, and every server process
\* starts a runner of its own.
SweepSlots == {1, 2}

\* Variant of the SELECT without the condition on execute_at.
DueTasks_IncludesFuture ==
    LET due == {t \in DOMAIN scheduled_tasks :
                   scheduled_tasks[t].status = "pending"}
        ord == SortBy(due, [t \in due |-> scheduled_tasks[t].execute_at])
    IN  SubSeq(ord, 1, IF Len(ord) < BatchLimit THEN Len(ord) ELSE BatchLimit)

\* runPendingTasks: the SELECT of due pending tasks.
DueTasks ==
    LET due == {t \in DOMAIN scheduled_tasks :
                   /\ scheduled_tasks[t].status = "pending"
                   /\ scheduled_tasks[t].execute_at <= now}
        ord == SortBy(due, [t \in due |-> scheduled_tasks[t].execute_at])
    IN  SubSeq(ord, 1, IF Len(ord) < BatchLimit THEN Len(ord) ELSE BatchLimit)

RunPendingTasks(w) ==
    /\ sweeps[w].pc = "idle"
    /\ DueTasks # <<>>
    /\ sweeps' = [sweeps EXCEPT ![w] =
          [ pc |-> "mark",
            batch |-> [i \in DOMAIN DueTasks |->
                          [ id            |-> DueTasks[i],
                            task_type     |-> scheduled_tasks[DueTasks[i]].task_type,
                            specialist_id |-> scheduled_tasks[DueTasks[i]].specialist_id,
                            client_id     |-> scheduled_tasks[DueTasks[i]].client_id ]] ]]
    /\ UNCHANGED <<db, stripe, requests, now, ticks, accounts, runner>>

\* Variant of the UPDATE that does not record a failure, so that a task whose
\* action throws keeps the status it has.
UpdateTask_SkipsFailed(tasks, t, status, at, result) ==
    [x \in DOMAIN tasks |->
        IF x = t /\ status # "failed"
        THEN [tasks[x] EXCEPT !.status = status, !.executed_at = at, !.result = result]
        ELSE tasks[x]]

\* UPDATE scheduled_tasks SET ... WHERE id = t
UpdateTask(tasks, t, status, at, result) ==
    [x \in DOMAIN tasks |->
        IF x = t
        THEN [tasks[x] EXCEPT !.status = status, !.executed_at = at, !.result = result]
        ELSE tasks[x]]

\* Variant of the first statement of executeTask that claims the task: the
\* UPDATE carries AND status = 'pending', and a run that finds the task taken
\* goes on to the next one.
ExecuteTaskMark_ClaimsPending(w) ==
    LET task == Head(sweeps[w].batch)
        free == /\ task.id \in DOMAIN scheduled_tasks
                /\ scheduled_tasks[task.id].status = "pending"
    IN  /\ sweeps[w].pc = "mark"
        /\ scheduled_tasks' = [x \in DOMAIN scheduled_tasks |->
              IF x = task.id /\ free
              THEN [scheduled_tasks[x] EXCEPT !.status = "processing"]
              ELSE scheduled_tasks[x]]
        /\ sweeps' = [sweeps EXCEPT ![w] =
              IF free THEN [@ EXCEPT !.pc = "run"]
              ELSE IF Tail(@.batch) = <<>> THEN IdleSweep
              ELSE [pc |-> "mark", batch |-> Tail(@.batch)]]
        /\ UNCHANGED <<specialists, clients, billing_events, invoices, serial,
                       stripe, requests, now, ticks, accounts, runner>>

\* executeTask, first statement: mark the task as processing.
ExecuteTaskMark(w) ==
    LET task == Head(sweeps[w].batch)
    IN  /\ sweeps[w].pc = "mark"
        /\ scheduled_tasks' = [x \in DOMAIN scheduled_tasks |->
              IF x = task.id
              THEN [scheduled_tasks[x] EXCEPT !.status = "processing"]
              ELSE scheduled_tasks[x]]
        /\ sweeps' = [sweeps EXCEPT ![w].pc = "run"]
        /\ UNCHANGED <<specialists, clients, billing_events, invoices, serial,
                       stripe, requests, now, ticks, accounts, runner>>

\* Variant of the loop of runPendingTasks that gives the batch up when a task
\* has failed.
RestOfBatch_StopsOnFailure(rest, failed) ==
    IF failed \/ rest = <<>> THEN IdleSweep ELSE [pc |-> "mark", batch |-> rest]

\* runPendingTasks, the for loop: executeTask catches what the task throws,
\* so the loop goes on to the next task of the batch whether the task failed
\* or not.
RestOfBatch(rest, failed) ==
    IF rest = <<>> THEN IdleSweep ELSE [pc |-> "mark", batch |-> rest]

\* The task types whose method the runner does not define.
ThrowingTaskTypes == {"downgrade_plan", "cancel_subscription"}

\* archiveClient: does the UPDATE ... RETURNING return a row.
ArchiveMatches(cl, task) ==
    /\ task.client_id \in DOMAIN cl
    /\ cl[task.client_id].specialist_id = task.specialist_id

\* executeTask, the rest: the action of the task's type, then the task is
\* marked completed, or failed when the action throws (downgrade_plan and
\* cancel_subscription call methods the runner does not define).
ExecuteTaskRun(w) ==
    LET task == Head(sweeps[w].batch)
        rest == Tail(sweeps[w].batch)
        new  == ArchiveRows(clients, {task.client_id}, task.specialist_id,
                            "auto_archived_billing_limit", now)
    IN  /\ sweeps[w].pc = "run"
        /\ sweeps' = [sweeps EXCEPT ![w] =
              RestOfBatch(rest, task.task_type \in ThrowingTaskTypes)]
        /\ CASE task.task_type = "archive_client" ->
                  /\ clients' = new
                  /\ specialists' =
                        IF ArchiveMatches(clients, task)
                        THEN CheckClientLimitsWrite(
                                UpdateClientCount(specialists, clients, new),
                                new, task.specialist_id, now)
                        ELSE specialists
                  /\ scheduled_tasks' = UpdateTask(scheduled_tasks, task.id,
                        "completed", now,
                        IF ArchiveMatches(clients, task) THEN "archived"
                        ELSE "not_archived")
             [] task.task_type \in ThrowingTaskTypes ->
                  /\ scheduled_tasks' = UpdateTask(scheduled_tasks, task.id,
                        "failed", now, "error")
                  /\ UNCHANGED <<specialists, clients>>
             [] task.task_type \in {"send_limit_warning", "retry_payment"} ->
                  /\ scheduled_tasks' = UpdateTask(scheduled_tasks, task.id,
                        "completed", now, "done")
                  /\ UNCHANGED <<specialists, clients>>
             [] OTHER ->
                  /\ scheduled_tasks' = UpdateTask(scheduled_tasks, task.id,
                        "completed", now, "unknown_task_type")
                  /\ UNCHANGED <<specialists, clients>>
        /\ UNCHANGED <<billing_events, invoices, serial, stripe, requests, now, ticks, accounts, runner>>

\* Variant of the candidate query that takes the most recently active
\* clients first (ORDER BY last_activity DESC).
ArchiveCandidateSets_NewestFirst(s) ==
    LET row      == specialists[s]
        limit    == ClientLimitOf(row.billing_tier_id)
        active   == ActiveCount(clients, s)
        eligible == {c \in DOMAIN clients :
                        /\ clients[c].specialist_id = s
                        /\ clients[c].is_active
                        /\ \/ clients[c].last_activity = NullTime
                           \/ clients[c].last_activity < now - InactiveDays}
        n        == IF Cardinality(eligible) < active - limit
                    THEN Cardinality(eligible) ELSE active - limit
    IN  IF row.is_restricted /\ limit # Unlimited /\ active > limit
        THEN {K \in SUBSET eligible :
                 /\ Cardinality(K) = n
                 /\ \A a \in K, b \in eligible \ K :
                       clients[a].last_activity >= clients[b].last_activity}
        ELSE {{}}

\* smartArchiveClients(s): the candidates of the second SELECT.  Rows with
\* equal last_activity come in an order SQL does not fix, so every choice of
\* the LIMIT-many first rows is possible.
ArchiveCandidateSets(s) ==
    LET row      == specialists[s]
        limit    == ClientLimitOf(row.billing_tier_id)
        active   == ActiveCount(clients, s)
        eligible == {c \in DOMAIN clients :
                        /\ clients[c].specialist_id = s
                        /\ clients[c].is_active
                        /\ \/ clients[c].last_activity = NullTime
                           \/ clients[c].last_activity < now - InactiveDays}
        n        == IF Cardinality(eligible) < active - limit
                    THEN Cardinality(eligible) ELSE active - limit
    IN  IF row.is_restricted /\ limit # Unlimited /\ active > limit
        THEN {K \in SUBSET eligible :
                 /\ Cardinality(K) = n
                 /\ \A a \in K, b \in eligible \ K :
                       clients[a].last_activity <= clients[b].last_activity}
        ELSE {{}}

\* Variant of smartArchiveClients that makes the archive tasks due at once.
SmartArchiveClients_DueAtOnce(tasks, n, s, K) ==
    LET ord == SortBy(K, [c \in K |-> clients[c].last_activity])
    IN  InsertTasks(tasks, n,
           [i \in DOMAIN ord |-> NewTask("archive_client", s, ord[i], now)])

\* smartArchiveClients(s): one archive_client task per candidate, due in
\* seven days.
SmartArchiveClients(tasks, n, s, K) ==
    LET ord == SortBy(K, [c \in K |-> clients[c].last_activity])
    IN  InsertTasks(tasks, n,
           [i \in DOMAIN ord |->
               NewTask("archive_client", s, ord[i], now + ArchiveDelayDays)])

\* runSmartArchive: smartArchiveClients for every specialist restricted with
\* reason client_limit_exceeded, in the order of the SELECT.
RECURSIVE SmartArchiveAll(_, _, _, _)
SmartArchiveAll(tasks, n, todo, pick) ==
    IF todo = <<>> THEN [tasks |-> tasks, n |-> n]
    ELSE LET one == SmartArchiveClients(tasks, n, Head(todo), pick[Head(todo)])
         IN  SmartArchiveAll(one.tasks, one.n, Tail(todo), pick)

RunSmartArchive ==
    LET targets == {s \in DOMAIN specialists :
                       /\ specialists[s].is_restricted
                       /\ specialists[s].restriction_reason = "client_limit_exceeded"}
    IN  \E pick \in [targets -> SUBSET DOMAIN clients] :
           /\ \A s \in targets : pick[s] \in ArchiveCandidateSets(s)
           /\ LET out == SmartArchiveAll(scheduled_tasks, serial.tasks,
                                         SortBy(targets, [s \in targets |-> 0]), pick)
              IN  /\ scheduled_tasks' = out.tasks
                  /\ serial' = [serial EXCEPT !.tasks = out.n]
           /\ UNCHANGED <<specialists, clients, billing_events, invoices, stripe,
                          requests, sweeps, now, ticks, accounts, runner>>

\* The names under which start() keeps its cron jobs.
JobNames ==
    { "pending-tasks", "trial-ends", "smart-archive", "overdue-invoices",
      "usage-metrics", "cleanup" }

\* new ScheduledTasksRunner(): this.tasks = new Map().  tasks maps a job name
\* to the handle cron.schedule returned, scheduled holds the handles of the
\* cron jobs that are scheduled; a handle is <<name, number of the start()
\* call that made it>>.
NewRunner ==
    [ tasks |-> <<>>, scheduled |-> {}, starts |-> 0, overdue |-> <<>> ]

\* Calls of start() in the life of the process.
MaxStarts == 2

\* start(): every job is scheduled with cron.schedule and its handle is put
\* in the map under the job's name, in the place of the handle that was
\* there.
Start ==
    /\ runner.starts < MaxStarts
    /\ LET n == runner.starts + 1
       IN  runner' = [runner EXCEPT
              !.starts    = n,
              !.tasks     = [name \in JobNames |-> <<name, n>>],
              !.scheduled = @ \cup {<<name, n>> : name \in JobNames}]
    /\ UNCHANGED <<db, stripe, requests, sweeps, now, ticks, accounts>>

\* stop(): task.stop() for every handle in the map, then the map is cleared.
Stop ==
    /\ runner' = [runner EXCEPT
          !.scheduled = @ \ {runner.tasks[name] : name \in DOMAIN runner.tasks},
          !.tasks     = <<>>]
    /\ UNCHANGED <<db, stripe, requests, sweeps, now, ticks, accounts>>

\* A cron job scheduled under the name job is due and its callback runs.
CronFires(job) ==
    \E h \in runner.scheduled : h[1] = job

\* Days an invoice stays in the reach of checkOverdueInvoices.
OverdueWindowDays == 30

\* checkOverdueInvoices: the SELECT of pending invoices past their due date.
OverdueInvoices ==
    SortBy({i \in DOMAIN invoices :
               /\ invoices[i].status = "pending"
               /\ invoices[i].due_date < now
               /\ invoices[i].due_date >= now - OverdueWindowDays},
           [i \in DOMAIN invoices |-> 0])

\* checkOverdueInvoices starts (once a day, after the run of the day before
\* is over): the rows of its SELECT are what the loop will go through.
CheckOverdueInvoices ==
    /\ runner.overdue = <<>>
    /\ runner' = [runner EXCEPT !.overdue = OverdueInvoices]
    /\ UNCHANGED <<db, stripe, requests, sweeps, now, ticks, accounts>>

\* UPDATE invoices SET status = 'overdue' WHERE id = i
MarkInvoice(iv, i) ==
    [j \in DOMAIN iv |->
        IF j = i THEN [iv[j] EXCEPT !.status = "overdue"] ELSE iv[j]]

\* checkOverdueInvoices, one turn of the loop: the UPDATE of the next selected
\* invoice and its notification.
MarkOverdue ==
    /\ runner.overdue # <<>>
    /\ invoices' = MarkInvoice(invoices, Head(runner.overdue))
    /\ runner' = [runner EXCEPT !.overdue = Tail(@)]
    /\ UNCHANGED <<specialists, clients, scheduled_tasks, billing_events, serial,
                   stripe, requests, sweeps, now, ticks, accounts>>

\* cleanupOldEvents
CleanupOldEvents ==
    LET keptEvents == {e \in DOMAIN billing_events :
                          ~ /\ billing_events[e].created_at < now - EventRetentionDays
                            /\ billing_events[e].event_type \notin
                                  {"subscription.created", "subscription.deleted"}}
        keptTasks  == {t \in DOMAIN scheduled_tasks :
                          ~ /\ scheduled_tasks[t].status = "completed"
                            /\ scheduled_tasks[t].executed_at < now - TaskRetentionDays}
    IN  /\ billing_events' = [e \in keptEvents |-> billing_events[e]]
        /\ scheduled_tasks' = [t \in keptTasks |-> scheduled_tasks[t]]
        /\ UNCHANGED <<specialists, clients, invoices, serial, stripe, requests,
                       sweeps, now, ticks, accounts, runner>>

\* -------------------------------------------------------- transactions

\* users.email values and role names a caller may pass; the roles table holds
\* RoleNames.
Emails == {"a@x", "b@x"}

RoleNames == {"client", "specialist"}

RequestedRoles == RoleNames \cup {"ghost"}

MigrationFiles == {"001_billing_schema.sql", "002_next.sql"}

\* The tables written inside transactions: users (by email, UNIQUE),
\* user_roles (user, role), user_permissions (by user), the schema objects a
\* migration file creates, and migrations (filename, UNIQUE).
EmptyTables ==
    [ users |-> {}, user_roles |-> {}, user_permissions |-> {},
      schema |-> {}, migrations |-> {} ]

\* No transaction: the connection is in the pool.  outcome is what the last
\* call returned to its caller.
IdleTx ==
    [ pc |-> "idle", todo |-> <<>>, work |-> EmptyTables, held |-> FALSE,
      committed |-> FALSE, find |-> FALSE, outcome |-> "none" ]

\* The statements UserModel.create(userData) issues between BEGIN and COMMIT:
\* the user row, one user_roles row per requested role that the roles table
\* knows (the others are skipped), the user_permissions row.
RECURSIVE RoleWrites(_, _)
RoleWrites(email, roles) ==
    IF roles = <<>> THEN <<>>
    ELSE (IF Head(roles) \in RoleNames
          THEN << [table |-> "user_roles", row |-> <<email, Head(roles)>>] >>
          ELSE <<>>) \o RoleWrites(email, Tail(roles))

CreateUserWrites(email, roles) ==
    << [table |-> "users", row |-> email] >>
    \o RoleWrites(email, roles)
    \o << [table |-> "user_permissions", row |-> email] >>

\* The statements of the callback of executeMigration: the SQL of the file,
\* then its migrations row.
MigrationWrites(file) ==
    << [table |-> "schema", row |-> file],
       [table |-> "migrations", row |-> file] >>

\* Does the INSERT violate a UNIQUE constraint (users.email,
\* user_permissions.user_id, migrations.filename), or re-create what exists.
Conflicts(tables, w) ==
    w.table \in {"users", "user_permissions", "migrations", "schema"}
       /\ w.row \in tables[w.table]

\* pool.connect() and BEGIN; the callback's statements are todo.  find says
\* whether a read follows COMMIT inside the try block (UserModel.create
\* returns this.findById(user.id)).
TxBegin(writes, find) ==
    /\ accounts.tx.pc = "idle"
    /\ accounts' = [accounts EXCEPT !.tx =
          [ pc |-> "run", todo |-> writes, work |-> accounts.tables,
            held |-> TRUE, committed |-> FALSE, find |-> find,
            outcome |-> "none" ]]
    /\ UNCHANGED <<db, stripe, requests, sweeps, now, ticks, runner>>

\* The next statement of the callback inside the transaction: it is applied
\* to the transaction's own view, or throws (constraint violation, or any
\* other error: fail).
TxStatement(fail) ==
    LET tx == accounts.tx
        w  == Head(tx.todo)
    IN  /\ tx.pc = "run"
        /\ tx.todo # <<>>
        /\ accounts' = [accounts EXCEPT !.tx =
              IF fail \/ Conflicts(tx.work, w)
              THEN [tx EXCEPT !.pc = "catch"]
              ELSE [tx EXCEPT !.todo = Tail(tx.todo),
                              !.work = [tx.work EXCEPT
                                           ![w.table] = @ \cup {w.row}]]]
        /\ UNCHANGED <<db, stripe, requests, sweeps, now, ticks, runner>>

\* COMMIT after the callback has completed: the transaction's view becomes
\* the tables.  A COMMIT that throws leaves them as they were.
TxCommit(fail) ==
    LET tx == accounts.tx
    IN  /\ tx.pc = "run"
        /\ tx.todo = <<>>
        /\ accounts' =
              IF fail THEN [accounts EXCEPT !.tx.pc = "catch"]
              ELSE [ tables |-> tx.work,
                     tx |-> [tx EXCEPT !.committed = TRUE,
                                       !.pc = IF tx.find THEN "find" ELSE "finally",
                                       !.outcome = "returned"] ]
        /\ UNCHANGED <<db, stripe, requests, sweeps, now, ticks, runner>>

\* UserModel.create: return await this.findById(user.id), after COMMIT and
\* still inside the try block.
TxFind(fail) ==
    /\ accounts.tx.pc = "find"
    /\ accounts' = [accounts EXCEPT !.tx.pc = IF fail THEN "catch" ELSE "finally"]
    /\ UNCHANGED <<db, stripe, requests, sweeps, now, ticks, runner>>

\* Variant of ROLLBACK that keeps what the transaction wrote.
Rollback_KeepsWrites(acc) ==
    [ tables |-> acc.tx.work,
      tx |-> [acc.tx EXCEPT !.pc = "finally", !.outcome = "thrown"] ]

\* catch: ROLLBACK, then the error is rethrown.  The statements of an open
\* transaction are discarded; after COMMIT there is nothing to undo.
Rollback(acc) ==
    [ tables |-> acc.tables,
      tx |-> [acc.tx EXCEPT !.pc = "finally", !.work = acc.tables,
                            !.outcome = "thrown"] ]

TxCatch ==
    /\ accounts.tx.pc = "catch"
    /\ accounts' = Rollback(accounts)
    /\ UNCHANGED <<db, stripe, requests, sweeps, now, ticks, runner>>

\* finally: client.release()
TxFinally ==
    /\ accounts.tx.pc = "finally"
    /\ accounts' = [accounts EXCEPT !.tx.pc = "idle", !.tx.held = FALSE,
                                    !.tx.todo = <<>>]
    /\ UNCHANGED <<db, stripe, requests, sweeps, now, ticks, runner>>

\* ------------------------------------------------------------- sessions

\* Days a refresh token lasts: expiresIn '7d' of the token and expires_at of
\* its row.
RefreshDays == 7

\* No row in refresh_tokens; last is the response of the last call of login,
\* logout or refresh.
NoSessions ==
    [ refresh_tokens |-> <<>>,
      last |-> [op |-> "none", user |-> NullId, token |-> <<>>, status |-> 0] ]

\* jwt.sign({ userId: u, type: 'refresh' }, JWT_REFRESH_SECRET, 7d) at time t:
\* the token is its payload (userId, iat, exp) under the server's signature.
RefreshToken(u, t) == [userId |-> u, iat |-> t, exp |-> t + RefreshDays, signed |-> TRUE]

\* The refresh tokens a caller may present: the ones that were issued (they
\* were returned by login), and the same payloads under another signature.
PresentedTokens ==
    LET issued == {accounts.sessions.refresh_tokens[i].token :
                      i \in DOMAIN accounts.sessions.refresh_tokens}
    IN  issued \cup {[tok EXCEPT !.signed = FALSE] : tok \in issued}

\* jwt.verify(token, JWT_REFRESH_SECRET): TRUE when it returns the payload,
\* FALSE when it throws (signature, or exp reached).
Verify(tok, t) == tok.signed /\ t < tok.exp

\* login (and signup, which stores its token with the same INSERT): with
\* valid credentials the refresh token is signed and stored, and returned.
\* token is UNIQUE: a second token with the same payload is not stored, the
\* INSERT throws and the call answers 500.
Login(u, valid) ==
    LET se  == accounts.sessions
        tok == RefreshToken(u, now)
    IN  /\ u \in UserIds
        /\ accounts' = [accounts EXCEPT !.sessions =
              IF ~valid
              THEN [se EXCEPT !.last = [op |-> "login", user |-> u,
                                        token |-> <<>>, status |-> 401]]
              ELSE IF \E i \in DOMAIN se.refresh_tokens :
                         se.refresh_tokens[i].token = tok
              THEN [se EXCEPT !.last = [op |-> "login", user |-> u,
                                        token |-> <<>>, status |-> 500]]
              ELSE [ refresh_tokens |-> Append(se.refresh_tokens,
                        [ user_id |-> u, token |-> tok,
                          expires_at |-> now + RefreshDays,
                          revoked_at |-> NullTime ]),
                     last |-> [op |-> "login", user |-> u, token |-> tok,
                               status |-> 200] ]]
        /\ UNCHANGED <<db, stripe, requests, sweeps, now, ticks, runner>>

\* UPDATE refresh_tokens SET revoked_at = CURRENT_TIMESTAMP
\* WHERE user_id = u AND revoked_at IS NULL
RevokeTokens(rows, u, t) ==
    [i \in DOMAIN rows |->
        IF rows[i].user_id = u /\ rows[i].revoked_at = NullTime
        THEN [rows[i] EXCEPT !.revoked_at = t] ELSE rows[i]]

\* logout, behind authenticate: without a valid access token the call is
\* answered 401 by the middleware; with one, req.user.userId is the user of
\* the token and its refresh tokens are revoked.
Logout(u, authenticated) ==
    LET se == accounts.sessions
    IN  /\ u \in UserIds
        /\ accounts' = [accounts EXCEPT !.sessions =
              IF ~authenticated
              THEN [se EXCEPT !.last = [op |-> "logout", user |-> u,
                                        token |-> <<>>, status |-> 401]]
              ELSE [ refresh_tokens |-> RevokeTokens(se.refresh_tokens, u, now),
                     last |-> [op |-> "logout", user |-> u, token |-> <<>>,
                               status |-> 200] ]]
        /\ UNCHANGED <<db, stripe, requests, sweeps, now, ticks, runner>>

\* Variant of the SELECT of refresh without revoked_at IS NULL.
TokenRows_IgnoresRevoked(rows, tok, t) ==
    {i \in DOMAIN rows :
        /\ rows[i].token = tok
        /\ rows[i].user_id = tok.userId
        /\ rows[i].expires_at > t}

\* SELECT * FROM refresh_tokens WHERE token = tok AND user_id = decoded.userId
\*   AND revoked_at IS NULL AND expires_at > NOW()
TokenRows(rows, tok, t) ==
    {i \in DOMAIN rows :
        /\ rows[i].token = tok
        /\ rows[i].user_id = tok.userId
        /\ rows[i].revoked_at = NullTime
        /\ rows[i].expires_at > t}

\* refresh: 401 when jwt.verify throws or the SELECT returns no row, else a
\* new access token (the users row exists).
Refresh(tok) ==
    LET se == accounts.sessions
    IN  /\ tok \in PresentedTokens
        /\ accounts' = [accounts EXCEPT !.sessions.last =
              [ op |-> "refresh", user |-> tok.userId, token |-> tok,
                status |-> IF /\ Verify(tok, now)
                              /\ TokenRows(se.refresh_tokens, tok, now) # {}
                           THEN 200 ELSE 401 ]]
        /\ UNCHANGED <<db, stripe, requests, sweeps, now, ticks, runner>>

\* --------------------------------------------------------------- clock

Tick(d) ==
    /\ ticks < MaxTicks
    /\ ticks' = ticks + 1
    /\ now' = now + d
    /\ UNCHANGED <<db, stripe, requests, sweeps, accounts, runner>>

\* --------------------------------------------------------------- system

\* POST /api/clients
IsCreate(req) == req.method = "POST" /\ req.url = <<"api", "clients">>

Init ==
    /\ specialists = [s \in {1} |-> NewSpecialist]
    /\ clients = <<>>
    /\ scheduled_tasks = <<>>
    /\ billing_events = <<>>
    /\ invoices = <<>>
    /\ serial = [tasks |-> 0, events |-> 0]
    /\ stripe = <<>>
    /\ requests = [r \in ReqSlots \cup {WebhookSlot} |-> IdleRequest]
    /\ sweeps = [w \in SweepSlots |-> IdleSweep]
    /\ now = 0
    /\ ticks = 0
    /\ accounts = [tables |-> EmptyTables, tx |-> IdleTx, sessions |-> NoSessions]
    /\ runner = NewRunner

\* Under Spec the tables billing_events, invoices and scheduled_tasks receive
\* at most SpecMaxRows rows in total.
SpecMaxRows == 1

\* Under Spec one run of runPendingTasks is under way at a time.
SpecSweeps == {1}

\* Under Spec one request on the client routes is under way at a time.
SpecReqs == {1}

SpecRows == serial.events + Len(invoices) + serial.tasks

Next ==
    \/ \E r \in SpecReqs, u \in UserIds, q \in ClientRequests, c \in ClientIds :
          ReqArrive(r, u, q, c)
    \/ \E r \in SpecReqs : CheckClientLimitsMw(r)
    \/ \E r \in SpecReqs : EnforceRestrictionsMw(r)
    \/ \E r \in SpecReqs : ClientRouteHandler(r)
    \/ \E u \in UserIds, ids \in SUBSET ClientIds : ArchiveClientsRoute(u, ids)
    \/ \E u \in UserIds, tier \in SpecTiers,
          fail \in {"none", "customer", "payment"} : CreateSubscription(u, tier, fail)
    \/ \E u \in UserIds, tier \in SpecTiers,
          fail \in {"none", "stripe"} : UpdateSubscription(u, tier, fail)
    \/ \E u \in UserIds, fail \in {"none", "stripe"} : CancelSubscription(u, fail)
    \/ EnforceDataRetention
    \/ (SpecRows < SpecMaxRows /\ \E ev \in Deliveries : HandleStripeWebhook(ev))
    \/ (SpecRows < SpecMaxRows /\ \E s \in UserIds : InvoiceIssued(s))
    \/ (SpecRows < SpecMaxRows /\
          \E type \in {"archive_client", "downgrade_plan"}, s \in UserIds,
             c \in ClientIds : ScheduleTask(type, s, c, 0))
    \/ \E w \in SpecSweeps : RunPendingTasks(w)
    \/ \E w \in SpecSweeps : ExecuteTaskMark(w)
    \/ \E w \in SpecSweeps : ExecuteTaskRun(w)
    \/ (SpecRows < SpecMaxRows /\ RunSmartArchive)
    \/ CheckOverdueInvoices
    \/ CleanupOldEvents

Spec == Init /\ [][Next]_vars

\* The processor delivers and redelivers events: subscriptions are created,
\* invoices issued, and up to ReplayMaxEvents audit rows written.
ReplayMaxEvents == 2

NextReplay ==
    \/ \E u \in UserIds, tier \in SpecTiers,
          fail \in {"none", "customer", "payment"} : CreateSubscription(u, tier, fail)
    \/ (Len(invoices) < SpecMaxRows /\ \E s \in UserIds : InvoiceIssued(s))
    \/ (serial.events < ReplayMaxEvents /\
          \E ev \in Deliveries : HandleStripeWebhook(ev))

SpecReplay == Init /\ [][NextReplay]_vars

\* Overlapping runs of runPendingTasks: clients are created, up to
\* OverlapMaxTasks tasks scheduled, the clock advances a day at a time, and
\* every run of SweepSlots may be under way.
OverlapMaxTasks == 2

NextOverlap ==
    \/ \E r \in SpecReqs, u \in DOMAIN specialists, q \in ClientRequests :
          /\ IsCreate(q)
          /\ ReqArrive(r, u, q, NullId)
    \/ \E r \in SpecReqs : CheckClientLimitsMw(r)
    \/ \E r \in SpecReqs : EnforceRestrictionsMw(r)
    \/ \E r \in SpecReqs : ClientRouteHandler(r)
    \/ (serial.tasks < OverlapMaxTasks /\
          \E type \in {"archive_client", "downgrade_plan"},
             s \in DOMAIN specialists, c \in DOMAIN clients :
                ScheduleTask(type, s, c, 0))
    \/ \E w \in SweepSlots : RunPendingTasks(w)
    \/ \E w \in SweepSlots : ExecuteTaskMark(w)
    \/ \E w \in SweepSlots : ExecuteTaskRun(w)
    \/ Tick(1)

SpecOverlap == Init /\ [][NextOverlap]_vars

\* The weekly smart archive over time: clients are created on a tier that
\* has room for them, the account is moved to a smaller tier, clients are
\* active or not, the clock advances by the archive delay or past the
\* inactivity period, and the archive tasks are swept.
ArchiveMaxTasks == 2

NextArchive ==
    \/ \E r \in SpecReqs, u \in DOMAIN specialists, q \in ClientRequests :
          /\ IsCreate(q)
          /\ ReqArrive(r, u, q, NullId)
    \/ \E r \in SpecReqs : CheckClientLimitsMw(r)
    \/ \E r \in SpecReqs : EnforceRestrictionsMw(r)
    \/ \E r \in SpecReqs : ClientRouteHandler(r)
    \/ \E u \in DOMAIN specialists : CreateSubscription(u, "professional", "none")
    \/ \E u \in DOMAIN specialists, tier \in {"starter", "professional"} :
          UpdateSubscription(u, tier, "none")
    \/ \E c \in ClientIds, t \in {now, NullTime} : SetLastActivity(c, t)
    \/ \E d \in {ArchiveDelayDays, InactiveDays + 1} : Tick(d)
    \/ (serial.tasks < ArchiveMaxTasks /\ RunSmartArchive)
    \/ \E w \in SpecSweeps : RunPendingTasks(w)
    \/ \E w \in SpecSweeps : ExecuteTaskMark(w)
    \/ \E w \in SpecSweeps : ExecuteTaskRun(w)

SpecArchive == Init /\ [][NextArchive]_vars

\* Subscriptions are created and changed, with processor calls that may
\* throw, for accounts that create clients and meet their limit.
NextSubs ==
    \/ \E r \in SpecReqs, u \in DOMAIN specialists, q \in ClientRequests :
          /\ IsCreate(q)
          /\ ReqArrive(r, u, q, NullId)
    \/ \E r \in SpecReqs : CheckClientLimitsMw(r)
    \/ \E r \in SpecReqs : EnforceRestrictionsMw(r)
    \/ \E r \in SpecReqs : ClientRouteHandler(r)
    \/ \E u \in UserIds, tier \in SpecTiers,
          fail \in {"none", "customer", "payment"} : CreateSubscription(u, tier, fail)
    \/ \E u \in UserIds, tier \in SpecTiers, fail \in {"none", "stripe"} :
          UpdateSubscription(u, tier, fail)
    \/ Tick(1)

SpecSubs == Init /\ [][NextSubs]_vars

\* Invoices are issued and paid while the daily run of checkOverdueInvoices
\* goes through the rows it selected: up to InvoiceMaxRows invoices, up to
\* InvoiceMaxEvents deliveries of invoice events.
InvoiceMaxRows == 2

InvoiceMaxEvents == 2

NextInvoices ==
    \/ (Len(invoices) < InvoiceMaxRows /\ \E s \in DOMAIN specialists : InvoiceIssued(s))
    \/ (serial.events < InvoiceMaxEvents /\
          \E ev \in Deliveries :
             /\ ev.type \in {"invoice.payment_succeeded", "invoice.payment_failed"}
             /\ HandleStripeWebhook(ev))
    \/ CheckOverdueInvoices
    \/ MarkOverdue
    \/ Tick(1)

SpecInvoices == Init /\ [][NextInvoices]_vars

\* A subscription is created through POST /api/billing/subscribe while the
\* processor delivers its events: up to SubscribeMaxEvents deliveries.
SubscribeMaxEvents == 2

NextSubscribe ==
    \/ \E r \in SpecReqs, u \in DOMAIN specialists, tier \in SpecTiers :
          SubscribeAtProcessor(r, u, tier)
    \/ \E r \in SpecReqs : SubscribeWrite(r)
    \/ (serial.events < SubscribeMaxEvents /\
          \E ev \in Deliveries :
             /\ ev.type \in {"customer.subscription.created", "invoice.payment_failed"}
             /\ HandleStripeWebhook(ev))
    \/ Tick(1)

SpecSubscribe == Init /\ [][NextSubscribe]_vars

\* Two registered accounts.
InitOwners ==
    /\ specialists = [s \in UserIds |-> NewSpecialist]
    /\ clients = <<>>
    /\ scheduled_tasks = <<>>
    /\ billing_events = <<>>
    /\ invoices = <<>>
    /\ serial = [tasks |-> 0, events |-> 0]
    /\ stripe = <<>>
    /\ requests = [r \in ReqSlots \cup {WebhookSlot} |-> IdleRequest]
    /\ sweeps = [w \in SweepSlots |-> IdleSweep]
    /\ now = 0
    /\ ticks = 0
    /\ accounts = [tables |-> EmptyTables, tx |-> IdleTx, sessions |-> NoSessions]
    /\ runner = NewRunner

\* Two accounts create clients and archive through the route, with any ids
\* in the body, and up to OwnersMaxTasks archive tasks, naming any account
\* and any client, are swept.
OwnersMaxTasks == 2

NextOwners ==
    \/ \E r \in SpecReqs, u \in DOMAIN specialists, q \in ClientRequests :
          /\ IsCreate(q)
          /\ ReqArrive(r, u, q, NullId)
    \/ \E r \in SpecReqs : CheckClientLimitsMw(r)
    \/ \E r \in SpecReqs : EnforceRestrictionsMw(r)
    \/ \E r \in SpecReqs : ClientRouteHandler(r)
    \/ \E u \in DOMAIN specialists, ids \in SUBSET ClientIds :
          ArchiveClientsRoute(u, ids)
    \/ (serial.tasks < OwnersMaxTasks /\
          \E s \in DOMAIN specialists, c \in DOMAIN clients :
             ScheduleTask("archive_client", s, c, 0))
    \/ \E w \in SpecSweeps : RunPendingTasks(w)
    \/ \E w \in SpecSweeps : ExecuteTaskMark(w)
    \/ \E w \in SpecSweeps : ExecuteTaskRun(w)

SpecOwners == InitOwners /\ [][NextOwners]_vars

\* The audit log over the years: a subscription is created, up to
\* CleanupMaxEvents deliveries are logged, the clock advances by a day or by
\* more than the retention period, and the monthly cleanup runs.
CleanupMaxEvents == 2

NextCleanup ==
    \/ \E u \in DOMAIN specialists, tier \in SpecTiers :
          CreateSubscription(u, tier, "none")
    \/ (serial.events < CleanupMaxEvents /\
          \E ev \in Deliveries : HandleStripeWebhook(ev))
    \/ \E d \in {1, EventRetentionDays + 1} : Tick(d)
    \/ CleanupOldEvents

SpecCleanup == Init /\ [][NextCleanup]_vars

\* The runner is started and stopped, by the server and on the shutdown
\* signals, and the cron jobs that are scheduled fire: invoices are issued,
\* the clock advances, and the overdue-invoices job runs.
NextRunner ==
    \/ Start
    \/ Stop
    \/ (CronFires("overdue-invoices") /\ CheckOverdueInvoices)
    \/ MarkOverdue
    \/ (Len(invoices) < InvoiceMaxRows /\ \E s \in DOMAIN specialists : InvoiceIssued(s))
    \/ Tick(1)

SpecRunner == Init /\ [][NextRunner]_vars

\* Requests on the client routes that overlap.
NextRace ==
    \/ \E r \in ReqSlots, u \in UserIds, q \in ClientRequests, c \in ClientIds :
          ReqArrive(r, u, q, c)
    \/ \E r \in ReqSlots : CheckClientLimitsMw(r)
    \/ \E r \in ReqSlots : EnforceRestrictionsMw(r)
    \/ \E r \in ReqSlots : ClientRouteHandler(r)

SpecRace == Init /\ [][NextRace]_vars

\* The task sweep and the retention cleanup under their cron schedules: the
\* sweep fires every five minutes and the cleanup monthly, for as long as the
\* process runs, and an awaited statement of a run in progress completes.
SweepMaxTasks == 2

NextSweep ==
    \/ (serial.tasks < SweepMaxTasks /\
          \E type \in {"archive_client", "downgrade_plan"},
             s \in DOMAIN specialists, delay \in {0, 1} :
                ScheduleTask(type, s, NullId, delay))
    \/ \E w \in SpecSweeps : RunPendingTasks(w)
    \/ \E w \in SpecSweeps : ExecuteTaskMark(w)
    \/ \E w \in SpecSweeps : ExecuteTaskRun(w)
    \/ CleanupOldEvents
    \/ \E d \in {1, TaskRetentionDays + 1} : Tick(d)

SpecSweep ==
    /\ Init
    /\ [][NextSweep]_vars
    /\ \A w \in SpecSweeps :
          /\ WF_vars(RunPendingTasks(w))
          /\ WF_vars(ExecuteTaskMark(w))
          /\ WF_vars(ExecuteTaskRun(w))
    /\ WF_vars(CleanupOldEvents)

\* The sweep alone, with runs that overlap.
NextSweepOverlap ==
    \/ (serial.tasks < SweepMaxTasks /\
          \E type \in {"archive_client", "downgrade_plan"},
             s \in DOMAIN specialists, delay \in {0, 1} :
                ScheduleTask(type, s, NullId, delay))
    \/ \E w \in SweepSlots : RunPendingTasks(w)
    \/ \E w \in SweepSlots : ExecuteTaskMark(w)
    \/ \E w \in SweepSlots : ExecuteTaskRun(w)
    \/ Tick(1)

SpecSweepOverlap ==
    /\ Init
    /\ [][NextSweepOverlap]_vars
    /\ \A w \in SweepSlots :
          /\ WF_vars(RunPendingTasks(w))
          /\ WF_vars(ExecuteTaskMark(w))
          /\ WF_vars(ExecuteTaskRun(w))

\* The sweep with more due tasks than one batch takes: warnings are
\* scheduled, the first BatchDelayedTasks of them for now or the next day and
\* the others for now, and swept by one run at a time.
BatchMaxTasks == 11

BatchDelayedTasks == 2

NextBatch ==
    \/ (serial.tasks < BatchMaxTasks /\
          \E s \in DOMAIN specialists,
             delay \in (IF serial.tasks < BatchDelayedTasks THEN {0, 1} ELSE {0}) :
             ScheduleTask("send_limit_warning", s, NullId, delay))
    \/ \E w \in SpecSweeps : RunPendingTasks(w)
    \/ \E w \in SpecSweeps : ExecuteTaskMark(w)
    \/ \E w \in SpecSweeps : ExecuteTaskRun(w)
    \/ Tick(1)

SpecBatch == Init /\ [][NextBatch]_vars

\* Transactions: accounts are created and migration files executed, one
\* transaction at a time on the connection, any statement of which may throw.
RoleLists == {<<>>, <<"client">>, <<"ghost">>, <<"client", "specialist">>,
              <<"ghost", "specialist">>}

NextTx ==
    \/ \E email \in Emails, roles \in RoleLists :
          TxBegin(CreateUserWrites(email, roles), TRUE)
    \/ \E file \in MigrationFiles : TxBegin(MigrationWrites(file), FALSE)
    \/ \E fail \in BOOLEAN : TxStatement(fail)
    \/ \E fail \in BOOLEAN : TxCommit(fail)
    \/ \E fail \in BOOLEAN : TxFind(fail)
    \/ TxCatch
    \/ TxFinally

SpecTx == Init /\ [][NextTx]_vars

\* Sessions: users log in, log out and present refresh tokens while the clock
\* advances by a day or by the life of a token; refresh_tokens receives up to
\* AuthMaxTokens rows.
AuthMaxTokens == 2

NextAuth ==
    \/ (Len(accounts.sessions.refresh_tokens) < AuthMaxTokens /\
          \E u \in UserIds, valid \in BOOLEAN : Login(u, valid))
    \/ \E u \in UserIds, authenticated \in BOOLEAN : Logout(u, authenticated)
    \/ \E tok \in PresentedTokens : Refresh(tok)
    \/ \E d \in {1, RefreshDays} : Tick(d)

SpecAuth == Init /\ [][NextAuth]_vars

\* ------------------------------------------------------------ properties

C2_ClientCountIsActiveCount ==
    \A s \in DOMAIN specialists :
       specialists[s].client_count = ActiveCount(clients, s)

\* A specialist with an active and an archived client, counted as one.
C2_Witness ==
    \E s \in DOMAIN specialists :
       /\ specialists[s].client_count = 1
       /\ \E c, d \in DOMAIN clients :
             /\ clients[c].specialist_id = s /\ clients[c].is_active
             /\ clients[d].specialist_id = s /\ clients[d].is_archived
                                             /\ ~clients[d].is_active

ArchiveColumnsWithReason(row) ==
    <<row.is_active, row.is_archived, row.archived_at, row.archived_reason>>

\* Client c is archived by the step: it ends archived, with an archive column
\* rewritten.
ArchivedByStep(c) ==
    /\ c \in DOMAIN clients /\ c \in DOMAIN clients'
    /\ clients'[c].is_archived /\ ~clients'[c].is_active
    /\ ArchiveColumnsWithReason(clients'[c]) # ArchiveColumnsWithReason(clients[c])

\* C4 as stated: a step that archives a client changes only is_active,
\* is_archived and archived_at of the clients it archives; every other column
\* of them and every other clients row is unchanged.
C4_ArchiveWritesThreeColumns ==
    [][ (\E c \in DOMAIN clients : ArchivedByStep(c)) =>
          /\ DOMAIN clients' = DOMAIN clients
          /\ \A d \in DOMAIN clients :
                IF ArchivedByStep(d)
                THEN clients'[d] = [clients[d] EXCEPT
                                       !.is_active = clients'[d].is_active,
                                       !.is_archived = clients'[d].is_archived,
                                       !.archived_at = clients'[d].archived_at]
                ELSE clients'[d] = clients[d] ]_vars

\* C4 (amended): a step that archives a client changes only is_active,
\* is_archived, archived_at and archived_reason of the clients it archives;
\* every other column of them and every other clients row is unchanged.
C4_ArchiveWritesArchiveColumns ==
    [][ (\E c \in DOMAIN clients : ArchivedByStep(c)) =>
          /\ DOMAIN clients' = DOMAIN clients
          /\ \A d \in DOMAIN clients :
                IF ArchivedByStep(d)
                THEN clients'[d] = [clients[d] EXCEPT
                                       !.is_active = FALSE,
                                       !.is_archived = TRUE,
                                       !.archived_at = clients'[d].archived_at,
                                       !.archived_reason = clients'[d].archived_reason]
                ELSE clients'[d] = clients[d] ]_vars

\* One client archived through the route, another of the same specialist
\* untouched.
C4_Witness ==
    \E c, d \in DOMAIN clients :
       /\ c # d
       /\ clients[c].specialist_id = clients[d].specialist_id
       /\ clients[c].is_archived /\ clients[c].archived_reason = "manual_archive"
       /\ clients[d].is_active /\ clients[d].archived_reason = NullText

\* PUT /api/clients/{id}/activate and POST /api/clients/import
IsReactivate(req) ==
    req.method = "PUT" /\ req.url = <<"api", "clients", DigitSeg, "activate">>

IsImport(req) == req.method = "POST" /\ req.url = <<"api", "clients", "import">>

AddsClients(req) == IsCreate(req) \/ IsReactivate(req) \/ IsImport(req)

\* C5: when the restriction middleware processes a create, reactivate or
\* bulk-import request of a restricted account, the request is answered with
\* 403 and upgrade_url and the handler does not run.
C5_RestrictedAccountCannotAdd ==
    [][\A r \in ReqSlots :
          LET req == requests[r]
          IN  ( /\ req.pc = "enforceRestrictions"
                /\ AddsClients(req)
                /\ req.user \in DOMAIN specialists
                /\ specialists[req.user].is_restricted
                /\ requests'[r] # req )
              => requests'[r] = Respond(403, TRUE, FALSE) ]_vars

\* C6: for a restricted account, a request on the client routes that neither
\* creates, reactivates nor imports clients is passed on by checkClientLimits
\* and by enforceRestrictions.
C6_RestrictedAccountKeepsOtherActions ==
    [][\A r \in ReqSlots :
          LET req == requests[r]
          IN  ( /\ req.pc \in {"checkClientLimits", "enforceRestrictions"}
                /\ ~AddsClients(req)
                /\ req.user \in DOMAIN specialists
                /\ specialists[req.user].is_restricted
                /\ requests'[r] # req )
              => requests'[r].pc = IF req.pc = "checkClientLimits"
                                   THEN "enforceRestrictions" ELSE "handler" ]_vars

\* C7 as stated: a middleware limit check of an account at or over its finite
\* limit leaves it restricted with reason capacity_exceeded and reports
\* restricted = true (the request is answered 403); for an unlimited tier the
\* check reports restricted = false and leaves the flag as it was.
C7_LimitCheckCapacityExceeded ==
    [][\A r \in ReqSlots :
          LET req    == requests[r]
              s      == req.user
              limit  == ClientLimitOf(specialists[s].billing_tier_id)
              active == ActiveCount(clients, s)
          IN  ( /\ req.pc = "checkClientLimits"
                /\ req.method = "POST"
                /\ s \in DOMAIN specialists
                /\ requests'[r] # req )
              => /\ (limit # Unlimited /\ active >= limit) =>
                       /\ specialists'[s].is_restricted
                       /\ specialists'[s].restriction_reason = "capacity_exceeded"
                       /\ requests'[r] = Respond(403, TRUE, FALSE)
                 /\ limit = Unlimited =>
                       /\ specialists'[s] = specialists[s]
                       /\ requests'[r].pc = "enforceRestrictions" ]_vars

\* C7 (amended): the same with the reason code the code writes,
\* client_limit_exceeded.
C7_LimitCheckClientLimitExceeded ==
    [][\A r \in ReqSlots :
          LET req    == requests[r]
              s      == req.user
              limit  == ClientLimitOf(specialists[s].billing_tier_id)
              active == ActiveCount(clients, s)
          IN  ( /\ req.pc = "checkClientLimits"
                /\ req.method = "POST"
                /\ s \in DOMAIN specialists
                /\ requests'[r] # req )
              => /\ (limit # Unlimited /\ active >= limit) =>
                       /\ specialists'[s].is_restricted
                       /\ specialists'[s].restriction_reason = "client_limit_exceeded"
                       /\ requests'[r] = Respond(403, TRUE, FALSE)
                 /\ limit = Unlimited =>
                       /\ specialists'[s] = specialists[s]
                       /\ requests'[r].pc = "enforceRestrictions" ]_vars

\* A limit check has restricted an account that is over its limit after a
\* downgrade.
C7_Witness ==
    \E s \in DOMAIN specialists :
       /\ specialists[s].is_restricted
       /\ specialists[s].restriction_reason = "client_limit_exceeded"
       /\ ActiveCount(clients, s) > ClientLimitOf(specialists[s].billing_tier_id)
       /\ \E r \in ReqSlots : requests[r] = Respond(403, TRUE, FALSE)

\* A subscription of specialist s is created by the step: by createSubscription
\* at the processor, or announced by a customer.subscription.created event.
SubscriptionCreatedFor(s) ==
    \/ /\ Len(stripe') = Len(stripe) + 1
       /\ stripe'[Len(stripe')].owner = s
    \/ \E e \in DOMAIN billing_events' \ DOMAIN billing_events :
          /\ billing_events'[e].event_type = "customer.subscription.created"
          /\ billing_events'[e].specialist_id = s

\* The processor's subscription of specialist s is moved to another tier by
\* the step (updateSubscription succeeded).
TierUpdatedFor(s) ==
    /\ Len(stripe') = Len(stripe)
    /\ \E k \in DOMAIN stripe :
          /\ stripe[k].owner = s
          /\ stripe'[k].tierId # stripe[k].tierId
    /\ billing_events' = billing_events

\* C8: a set restriction flag is cleared only by a step that creates a
\* subscription of the account (createSubscription or the subscription-created
\* event, the two callers of clearRestrictions) or changes its tier; every
\* other step, requests, limit checks, archives and sweeps included, leaves
\* it set.
C8_FlagStaysUntilCleared ==
    [][\A s \in DOMAIN specialists :
          (specialists[s].is_restricted /\ ~specialists'[s].is_restricted)
             => (SubscriptionCreatedFor(s) \/ TierUpdatedFor(s)) ]_vars

\* The flag is still set on an account that an archive task brought below
\* its limit.
C8_Witness ==
    \E s \in DOMAIN specialists :
       /\ specialists[s].is_restricted
       /\ ActiveCount(clients, s) < ClientLimitOf(specialists[s].billing_tier_id)
       /\ \E t \in DOMAIN scheduled_tasks :
             /\ scheduled_tasks[t].specialist_id = s
             /\ scheduled_tasks[t].result = "archived"

C10_CreateSubscriptionPersistsAndClears ==
    [][\A s \in DOMAIN specialists :
          ( /\ Len(stripe') = Len(stripe) + 1
            /\ stripe'[Len(stripe')].owner = s )
          => LET sub == Len(stripe')
                 row == specialists'[s]
             IN  /\ row.billing_tier_id = stripe'[sub].tierId
                 /\ row.stripe_customer_id # NullId
                 /\ row.stripe_subscription_id = sub
                 /\ row.subscription_status = stripe'[sub].status
                 /\ ~row.is_restricted
                 /\ row.restriction_reason = NullText
                 /\ row.restricted_at = NullTime ]_vars

\* A subscribed, unrestricted account whose active clients fill its limit:
\* createSubscription cleared the restriction the limit check had set.
C10_Witness ==
    \E s \in DOMAIN specialists :
       /\ specialists[s].stripe_subscription_id # NullId
       /\ specialists[s].subscription_status = "trialing"
       /\ ~specialists[s].is_restricted
       /\ specialists[s].restricted_at = NullTime
       /\ ClientLimitOf(specialists[s].billing_tier_id) # Unlimited
       /\ ActiveCount(clients, s) >= ClientLimitOf(specialists[s].billing_tier_id)

\* A verified event of the given type about the current subscription of
\* specialist s is processed by the step (its audit row is new).
EventProcessedFor(type, s) ==
    \E e \in DOMAIN billing_events' \ DOMAIN billing_events :
       /\ billing_events'[e].event_type = type
       /\ specialists[s].stripe_subscription_id # NullId
       /\ billing_events'[e].event_data = specialists[s].stripe_subscription_id

\* C11: after updateSubscription, or a verified customer.subscription.updated
\* event, has put an account on a tier whose finite limit is at or below its
\* number of active clients, the account is restricted with reason
\* client_limit_exceeded.
C11_DowngradeRestricts ==
    [][\A s \in DOMAIN specialists :
          ( /\ TierUpdatedFor(s) \/ EventProcessedFor("customer.subscription.updated", s)
            /\ ClientLimitOf(specialists'[s].billing_tier_id) # Unlimited
            /\ ActiveCount(clients', s) >= ClientLimitOf(specialists'[s].billing_tier_id) )
          => /\ specialists'[s].is_restricted
             /\ specialists'[s].restriction_reason = "client_limit_exceeded" ]_vars

\* An account that the event, not updateSubscription, put on the starter tier
\* (the processor's own record names another tier) with as many active
\* clients as the tier allows, and that is restricted for it.
C11_Witness ==
    \E s \in DOMAIN specialists :
       /\ specialists[s].billing_tier_id = "starter"
       /\ specialists[s].stripe_subscription_id # NullId
       /\ stripe[specialists[s].stripe_subscription_id].tierId = "professional"
       /\ ActiveCount(clients, s) >= StarterLimit
       /\ specialists[s].is_restricted
       /\ specialists[s].restriction_reason = "client_limit_exceeded"
       /\ \E e \in DOMAIN billing_events :
             billing_events[e].event_type = "customer.subscription.updated"

\* C12: cancelSubscription on an account with a subscription sets
\* subscription_status to 'canceling' and cancellation_date to the end of the
\* billing period and leaves is_restricted as it was; and an account takes the
\* restriction reason subscription_canceled only in a step that processes a
\* customer.subscription.deleted event about its subscription.
C12_CancelKeepsAccessUntilPeriodEnd ==
    [][\A s \in DOMAIN specialists :
          /\ CancelSubscription(s, "none")
                => /\ specialists'[s].subscription_status = "canceling"
                   /\ specialists'[s].cancellation_date =
                         stripe[specialists[s].stripe_subscription_id].current_period_end
                   /\ specialists'[s].is_restricted = specialists[s].is_restricted
          /\ ( /\ specialists'[s].restriction_reason = "subscription_canceled"
               /\ specialists[s].restriction_reason # "subscription_canceled" )
                => EventProcessedFor("customer.subscription.deleted", s) ]_vars

\* C13: a step that processes a verified customer.subscription.deleted event
\* about an account's subscription leaves the account with status 'canceled',
\* restricted with reason subscription_canceled, and every client row as it
\* was; and a GET request of an account restricted for cancellation passes
\* both middlewares and is answered by the handler.
C13_DeletedRestrictsAndKeepsClients ==
    [][/\ \A s \in DOMAIN specialists :
             EventProcessedFor("customer.subscription.deleted", s)
                => /\ specialists'[s].subscription_status = "canceled"
                   /\ specialists'[s].is_restricted
                   /\ specialists'[s].restriction_reason = "subscription_canceled"
                   /\ clients' = clients
       /\ \A r \in ReqSlots :
             LET req == requests[r]
             IN  ( /\ req.method = "GET"
                   /\ req.pc # "idle"
                   /\ req.user \in DOMAIN specialists
                   /\ specialists[req.user].is_restricted
                   /\ specialists[req.user].restriction_reason = "subscription_canceled"
                   /\ requests'[r] # req )
                 => /\ requests'[r] =
                          CASE req.pc = "checkClientLimits" ->
                                  [req EXCEPT !.pc = "enforceRestrictions"]
                            [] req.pc = "enforceRestrictions" ->
                                  [req EXCEPT !.pc = "handler",
                                              !.billing = BillingOf(req.user)]
                            [] req.pc = "handler" -> Respond(200, FALSE, TRUE)
                    /\ clients' = clients ]_vars

\* A GET request of a canceled, restricted account that owns a client has
\* reached the route handler.
C13_Witness ==
    \E r \in ReqSlots :
       LET req == requests[r]
       IN  /\ req.pc = "handler"
           /\ req.method = "GET"
           /\ req.user \in DOMAIN specialists
           /\ specialists[req.user].subscription_status = "canceled"
           /\ specialists[req.user].is_restricted
           /\ specialists[req.user].restriction_reason = "subscription_canceled"
           /\ \E c \in DOMAIN clients : clients[c].specialist_id = req.user
           /\ \E e \in DOMAIN billing_events :
                 billing_events[e].event_type = "customer.subscription.deleted"

\* C14: a webhook call whose signature fails verification is answered 400
\* and writes nothing: billing_events, specialists, invoices, clients and
\* scheduled_tasks are as before.
C14_UnverifiedWebhookChangesNothing ==
    [][( /\ requests'[WebhookSlot] # requests[WebhookSlot]
         /\ ~requests'[WebhookSlot].signature )
          => /\ requests'[WebhookSlot].status = 400
             /\ ~requests'[WebhookSlot].handled
             /\ UNCHANGED <<specialists, clients, invoices, billing_events,
                            scheduled_tasks, serial>> ]_vars

\* The last webhook call was answered 400 while an account had a
\* subscription and clients that an event could have touched; no audit row
\* exists.
C14_Witness ==
    /\ requests[WebhookSlot].status = 400
    /\ billing_events = <<>>
    /\ stripe # <<>>
    /\ clients # <<>>

\* The step writes an audit row for an event that already has one: the same
\* event id, type and object were delivered before.
Redelivered ==
    \E e \in DOMAIN billing_events' \ DOMAIN billing_events :
       \E f \in DOMAIN billing_events :
          /\ billing_events[f].stripe_event_id = billing_events'[e].stripe_event_id
          /\ billing_events[f].event_type = billing_events'[e].event_type
          /\ billing_events[f].event_data = billing_events'[e].event_data

\* C15: delivering a verified event a second time is no further state
\* transition: no second audit row is written and the tables are as the first
\* delivery left them.
C15_RedeliveryChangesNothing ==
    [][Redelivered =>
          UNCHANGED <<specialists, clients, invoices, billing_events,
                      scheduled_tasks>> ]_vars

\* C16: the status of a scheduled task changes only from pending to
\* processing and from processing to completed or failed, however the runs of
\* the sweep interleave.
C16_TaskStatusOrder ==
    [][\A t \in DOMAIN scheduled_tasks \cap DOMAIN scheduled_tasks' :
          LET old == scheduled_tasks[t].status
              new == scheduled_tasks'[t].status
          IN  new # old =>
                 \/ old = "pending" /\ new = "processing"
                 \/ old = "processing" /\ new \in {"completed", "failed"} ]_vars

\* Run w of the sweep executes the action of the task at the head of its
\* batch in this step.
RunsHeadTask(w) ==
    /\ sweeps[w].pc = "run"
    /\ sweeps'[w] # sweeps[w]

\* C17: when a run of the sweep processes an archive task that another run
\* has already executed, the clients table (archived_at included) and the
\* task's status and result stay as the first pass left them.
C17_SecondPassChangesNothing ==
    [][\A w \in SweepSlots :
          LET task == Head(sweeps[w].batch)
          IN  ( /\ RunsHeadTask(w)
                /\ task.task_type = "archive_client"
                /\ scheduled_tasks[task.id].executed_at # NullTime )
              => /\ clients' = clients
                 /\ scheduled_tasks'[task.id].status = "completed"
                 /\ scheduled_tasks'[task.id].result = scheduled_tasks[task.id].result ]_vars

\* C18: when the action of a task of the batch throws, the task is recorded
\* as failed with the error and the run goes on with the rest of the batch
\* (it ends only when the batch is used up).
C18_FailedTaskDoesNotStopBatch ==
    [][\A w \in SweepSlots :
          LET task == Head(sweeps[w].batch)
              rest == Tail(sweeps[w].batch)
          IN  ( /\ RunsHeadTask(w)
                /\ task.task_type \in ThrowingTaskTypes )
              => /\ scheduled_tasks'[task.id].status = "failed"
                 /\ scheduled_tasks'[task.id].result = "error"
                 /\ sweeps'[w].batch = rest
                 /\ sweeps'[w].pc = IF rest = <<>> THEN "idle" ELSE "mark" ]_vars

\* A run whose first task failed is executing the second task of its batch.
C18_Witness ==
    \E w \in SweepSlots :
       /\ sweeps[w].pc = "run"
       /\ Len(sweeps[w].batch) = 1
       /\ \E t \in DOMAIN scheduled_tasks :
             /\ t < Head(sweeps[w].batch).id
             /\ scheduled_tasks[t].status = "failed"
             /\ scheduled_tasks[t].execute_at = scheduled_tasks[Head(sweeps[w].batch).id].execute_at
       /\ \A v \in SweepSlots \ {w} : sweeps[v] = IdleSweep

\* The task rows the step inserts.
NewTasks == DOMAIN scheduled_tasks' \ DOMAIN scheduled_tasks

\* C19: a step of the smart archive that selects clients leaves every client
\* row as it is and inserts pending archive_client tasks due seven days
\* later; and a client is deactivated with reason auto_archived_billing_limit
\* only by a step for which an archive task of that client is due, so not
\* before seven days have passed since the client was selected.
C19_SmartArchiveOnlySchedules ==
    [][/\ NewTasks # {} =>
             /\ clients' = clients
             /\ \A t \in NewTasks :
                   /\ scheduled_tasks'[t].task_type = "archive_client"
                   /\ scheduled_tasks'[t].status = "pending"
                   /\ scheduled_tasks'[t].execute_at = now + ArchiveDelayDays
       /\ \A c \in DOMAIN clients :
             ( /\ clients[c].is_active
               /\ ~clients'[c].is_active
               /\ clients'[c].archived_reason = "auto_archived_billing_limit" )
             => \E t \in DOMAIN scheduled_tasks :
                   /\ scheduled_tasks[t].task_type = "archive_client"
                   /\ scheduled_tasks[t].client_id = c
                   /\ scheduled_tasks[t].execute_at <= now ]_vars

\* A client selected by the smart archive has been archived by its task, no
\* earlier than the task was due.
C19_Witness ==
    \E t \in DOMAIN scheduled_tasks :
       LET c == scheduled_tasks[t].client_id
       IN  /\ scheduled_tasks[t].task_type = "archive_client"
           /\ scheduled_tasks[t].status = "completed"
           /\ scheduled_tasks[t].result = "archived"
           /\ c \in DOMAIN clients
           /\ ~clients[c].is_active
           /\ clients[c].archived_reason = "auto_archived_billing_limit"
           /\ clients[c].archived_at >= scheduled_tasks[t].execute_at
           /\ scheduled_tasks[t].execute_at >= InactiveDays + ArchiveDelayDays

\* The clients the step selects for specialist s: the client ids of the
\* archive tasks it inserts for s.
SelectedFor(s) ==
    {scheduled_tasks'[t].client_id :
        t \in {x \in NewTasks : scheduled_tasks'[x].specialist_id = s}}

\* C20: for a restricted account with a finite limit and more active clients
\* than the limit, a step of the smart archive selects at most active - limit
\* clients, each once, all of them active clients of the account, and none
\* that was active later than an active client it leaves out (clients
\* without activity come first); for any other account it selects none.
C20_SmartArchiveSelection ==
    [][\A s \in DOMAIN specialists :
          LET limit  == ClientLimitOf(specialists[s].billing_tier_id)
              active == {c \in DOMAIN clients :
                            clients[c].specialist_id = s /\ clients[c].is_active}
              tasks  == {x \in NewTasks : scheduled_tasks'[x].specialist_id = s}
              K      == SelectedFor(s)
          IN  IF /\ specialists[s].is_restricted
                 /\ limit # Unlimited
                 /\ Cardinality(active) > limit
              THEN /\ Cardinality(tasks) <= Cardinality(active) - limit
                   /\ Cardinality(K) = Cardinality(tasks)
                   /\ K \subseteq active
                   /\ \A a \in K, b \in active \ K :
                         clients[a].last_activity <= clients[b].last_activity
              ELSE tasks = {} ]_vars

\* The smart archive has selected, of two active clients of a restricted
\* account, the one whose last activity is older or missing, and left the
\* other.
C20_Witness ==
    \E t \in DOMAIN scheduled_tasks, b \in DOMAIN clients :
       LET a == scheduled_tasks[t].client_id
           s == scheduled_tasks[t].specialist_id
       IN  /\ scheduled_tasks[t].task_type = "archive_client"
           /\ scheduled_tasks[t].status = "pending"
           /\ specialists[s].is_restricted
           /\ a \in DOMAIN clients /\ a # b
           /\ clients[a].specialist_id = s /\ clients[b].specialist_id = s
           /\ clients[a].is_active /\ clients[b].is_active
           /\ clients[a].last_activity = NullTime
           /\ clients[b].last_activity > NullTime
           /\ clients[b].last_activity < now - InactiveDays
           /\ \A x \in DOMAIN scheduled_tasks : scheduled_tasks[x].client_id # b


\* C21: the tables change only by the COMMIT that follows the last statement
\* of the callback, and then take every staged write at once; a throw leads to
\* ROLLBACK, which leaves the tables as they were and hands the error to the
\* caller (an error met before COMMIT means nothing of the transaction
\* persists); the connection is back in the pool when the call is over.  So a
\* user row exists exactly when its permission row does, role rows belong to
\* existing users, and a migration's schema exists exactly when its
\* migrations row does.
AllOrNone(tables) ==
    /\ tables.users = tables.user_permissions
    /\ \A r \in tables.user_roles : r[1] \in tables.users
    /\ tables.schema = tables.migrations

C21_TransactionAllOrNothing ==
    /\ [](AllOrNone(accounts.tables))
    /\ [](accounts.tx.pc = "idle" => ~accounts.tx.held)
    /\ [][ /\ accounts'.tables # accounts.tables
               => /\ accounts.tx.pc = "run"
                  /\ accounts.tx.todo = <<>>
                  /\ accounts'.tables = accounts.tx.work
                  /\ accounts'.tx.committed
           /\ accounts.tx.pc = "catch"
               => /\ accounts'.tables = accounts.tables
                  /\ accounts'.tx.outcome = "thrown"
                  /\ accounts'.tx.pc = "finally"
           /\ (accounts'.tx.outcome = "thrown" /\ ~accounts'.tx.committed)
               => accounts'.tables = accounts.tables
         ]_vars

\* An account creation has thrown after its user row was inserted, the error
\* went to the caller, and the users table holds only the account committed
\* earlier.
C21_Witness ==
    /\ accounts.tx.pc = "finally"
    /\ accounts.tx.outcome = "thrown"
    /\ ~accounts.tx.committed
    /\ accounts.tx.todo # <<>>
    /\ Head(accounts.tx.todo) = [table |-> "user_permissions", row |-> "b@x"]
    /\ accounts.tables.users = {"a@x"}
    /\ accounts.tables.user_roles = {<<"a@x", "client">>}

\* C22: every response to a request on the client routes carries the four
\* billing headers: a tier name, the client count and the client limit (or
\* 'unlimited') as text, and the restricted flag.
C22_ResponsesCarryBillingHeaders ==
    \A r \in ReqSlots :
       (requests[r].pc = "idle" /\ requests[r].status # 0)
          => /\ requests[r].headers.sent
             /\ requests[r].headers.tier \in
                   {TierNameOf(t) : t \in TierIds}
             /\ requests[r].headers.restricted \in {"true", "false"}


\* C23: a task that is completed or failed and whose execution lies further
\* back than the retention window is eventually removed from scheduled_tasks,
\* and a step never removes a task that is pending or processing.
C23_TerminalTasksAreRemoved ==
    /\ \A t \in 1..SweepMaxTasks :
          ( /\ t \in DOMAIN scheduled_tasks
            /\ scheduled_tasks[t].status \in {"completed", "failed"}
            /\ scheduled_tasks[t].executed_at < now - TaskRetentionDays )
          ~> (t \notin DOMAIN scheduled_tasks)
    /\ [][\A t \in DOMAIN scheduled_tasks :
             scheduled_tasks[t].status \in {"pending", "processing"}
                => t \in DOMAIN scheduled_tasks']_vars


\* C24: the capacity check of a create-client request reads the active count
\* of the moment it runs and lets the request pass exactly when that count is
\* below the limit; the handler that runs later inserts the client whatever
\* the count has become meanwhile.  Two overlapping requests of an account
\* one client below its limit therefore both pass and both insert (the
\* witness), which leaves the active count above the limit.
C24_CheckAndInsertAreNotAtomic ==
    [][\A r \in ReqSlots :
          LET req == requests[r]
          IN  /\ ( /\ req.pc = "checkClientLimits"
                   /\ IsCreate(req)
                   /\ req.user \in DOMAIN specialists
                   /\ requests'[r] # req )
                 => ( requests'[r].pc = "enforceRestrictions"
                      <=> ~AtOrOverLimit(specialists, clients, req.user) )
              /\ ( /\ req.pc = "handler"
                   /\ IsCreate(req)
                   /\ requests'[r] # req )
                 => ActiveCount(clients', req.user)
                       = ActiveCount(clients, req.user) + 1 ]_vars

\* Both create requests of the account have been answered by the handler and
\* the account's active clients outnumber the limit of its tier.
C24_Witness ==
    \E s \in DOMAIN specialists :
       /\ ClientLimitOf(specialists[s].billing_tier_id) # Unlimited
       /\ ActiveCount(clients, s) > ClientLimitOf(specialists[s].billing_tier_id)
       /\ \A r \in ReqSlots : /\ requests[r].status = 200
                               /\ requests[r].handled


\* C25: selecting the batch writes nothing to scheduled_tasks, and the first
\* statement of executeTask sets the task to processing whatever its status
\* is, after which the run executes it.  So when two runs overlap, a task that
\* both have selected is marked and executed by both (the witness).
C25_ClaimIsNotAtomic ==
    [][\A w \in SweepSlots :
          /\ (sweeps[w].pc = "idle" /\ sweeps'[w].pc = "mark")
                => scheduled_tasks' = scheduled_tasks
          /\ ( /\ sweeps[w].pc = "mark"
               /\ sweeps'[w] # sweeps[w]
               /\ Head(sweeps[w].batch).id \in DOMAIN scheduled_tasks )
             => /\ scheduled_tasks'[Head(sweeps[w].batch).id].status = "processing"
                /\ sweeps'[w] = [sweeps[w] EXCEPT !.pc = "run"] ]_vars

\* A task that one run has executed (executed_at is set) has been marked
\* processing again by the other run, which is about to execute it.
C25_Witness ==
    \E w \in SweepSlots :
       /\ sweeps[w].pc = "run"
       /\ Head(sweeps[w].batch).id \in DOMAIN scheduled_tasks
       /\ scheduled_tasks[Head(sweeps[w].batch).id].status = "processing"
       /\ scheduled_tasks[Head(sweeps[w].batch).id].executed_at # NullTime
       /\ \A v \in SweepSlots \ {w} : sweeps[v].pc = "idle"


\* C26: while the sweep keeps firing and its statements complete, a task that
\* is pending and due eventually is completed or failed (or has been removed
\* by the cleanup after that), and so does a task that is processing.
C26_DueTasksFinish ==
    \A t \in 1..SweepMaxTasks :
       /\ ( /\ t \in DOMAIN scheduled_tasks
            /\ scheduled_tasks[t].status = "pending"
            /\ scheduled_tasks[t].execute_at <= now )
          ~> ( t \in DOMAIN scheduled_tasks
                 => scheduled_tasks[t].status \in {"completed", "failed"} )
       /\ ( /\ t \in DOMAIN scheduled_tasks
            /\ scheduled_tasks[t].status = "processing" )
          ~> ( t \in DOMAIN scheduled_tasks
                 => scheduled_tasks[t].status \in {"completed", "failed"} )

\* Two tasks that were due have been swept: one is completed, the other
\* failed, and no run is under way.
C26_Witness ==
    /\ \E t \in DOMAIN scheduled_tasks :
          /\ scheduled_tasks[t].status = "completed"
          /\ scheduled_tasks[t].executed_at >= scheduled_tasks[t].execute_at
    /\ \E t \in DOMAIN scheduled_tasks :
          /\ scheduled_tasks[t].status = "failed"
          /\ scheduled_tasks[t].executed_at >= scheduled_tasks[t].execute_at
    /\ \A w \in SweepSlots : sweeps[w].pc = "idle"


\* C27: the batch a sweep selects consists of tasks that are pending and due
\* (execute_at <= now) at that moment, holds at most ten of them, in ascending
\* order of execute_at, earliest first; the run then executes the tasks of its
\* batch in that order and no other; so no task is executed before it is due.
C27_SweepSelectsDuePending ==
    [][/\ \A w \in SweepSlots :
            LET b == sweeps'[w].batch
            IN  /\ (sweeps[w].pc = "idle" /\ sweeps'[w].pc = "mark")
                   => /\ Len(b) <= BatchLimit
                      /\ \A i \in DOMAIN b :
                            /\ scheduled_tasks[b[i].id].status = "pending"
                            /\ scheduled_tasks[b[i].id].execute_at <= now
                      /\ \A i, j \in DOMAIN b :
                            i < j => scheduled_tasks[b[i].id].execute_at
                                        <= scheduled_tasks[b[j].id].execute_at
                      /\ \A i \in DOMAIN b, t \in DOMAIN scheduled_tasks :
                            ( /\ t \notin {b[k].id : k \in DOMAIN b}
                              /\ scheduled_tasks[t].status = "pending"
                              /\ scheduled_tasks[t].execute_at <= now )
                            => /\ Len(b) = BatchLimit
                               /\ scheduled_tasks[b[i].id].execute_at
                                     <= scheduled_tasks[t].execute_at
                /\ (sweeps[w].pc = "run" /\ sweeps'[w] # sweeps[w])
                   => \/ sweeps'[w] = [pc |-> "mark", batch |-> Tail(sweeps[w].batch)]
                      \/ (Tail(sweeps[w].batch) = <<>> /\ sweeps'[w] = IdleSweep)
       /\ \A t \in DOMAIN scheduled_tasks :
            ( /\ t \in DOMAIN scheduled_tasks'
              /\ scheduled_tasks'[t].executed_at # scheduled_tasks[t].executed_at )
            => /\ scheduled_tasks[t].execute_at <= now
               /\ \E w \in SweepSlots : /\ sweeps[w].pc = "run"
                                         /\ Head(sweeps[w].batch).id = t
      ]_vars

\* Eleven tasks are pending and due, and the run has selected ten of them.
C27_Witness ==
    \E w \in SweepSlots :
       /\ sweeps[w].pc = "mark"
       /\ Len(sweeps[w].batch) = BatchLimit
       /\ Cardinality({t \in DOMAIN scheduled_tasks :
                          /\ scheduled_tasks[t].status = "pending"
                          /\ scheduled_tasks[t].execute_at <= now}) > BatchLimit


\* C28: the processing of a verified webhook event, of whatever type, appends
\* one billing_events row that carries the event's type and id and leaves the
\* earlier rows as they are; an unverified one appends none; and no account
\* or invoice is changed by a webhook without the row of the event being
\* there.
C28_VerifiedEventsAreLogged ==
    [][/\ \A ev \in Deliveries :
            HandleStripeWebhook(ev)
               => IF ev.verified
                  THEN /\ DOMAIN billing_events' =
                             DOMAIN billing_events \cup {serial.events + 1}
                       /\ serial.events + 1 \notin DOMAIN billing_events
                       /\ billing_events'[serial.events + 1].event_type = ev.type
                       /\ billing_events'[serial.events + 1].stripe_event_id = ev.id
                       /\ billing_events'[serial.events + 1].created_at = now
                       /\ \A e \in DOMAIN billing_events :
                             billing_events'[e] = billing_events[e]
                  ELSE /\ billing_events' = billing_events
                       /\ specialists' = specialists
                       /\ invoices' = invoices
       /\ (requests'[WebhookSlot] # requests[WebhookSlot]
              /\ (specialists' # specialists \/ invoices' # invoices))
            => DOMAIN billing_events' # DOMAIN billing_events
      ]_vars

\* An event of a type without a handler and a payment event that settled an
\* invoice have both been logged.
C28_Witness ==
    /\ \E e \in DOMAIN billing_events :
          billing_events[e].event_type = "charge.refunded"
    /\ \E e \in DOMAIN billing_events :
          billing_events[e].event_type = "invoice.payment_succeeded"
    /\ \E i \in DOMAIN invoices : invoices[i].status = "paid"


\* C29: a call of createSubscription or updateSubscription in which a
\* processor call throws leaves the account's tier, subscription id,
\* subscription status and restriction fields, and every other account, as
\* they were, and creates or changes no subscription (the call is not
\* repeated).
BillingFields(row) ==
    << row.billing_tier_id, row.stripe_subscription_id, row.subscription_status,
       row.is_restricted, row.restriction_reason, row.restricted_at >>

C29_FailedCallKeepsBillingState ==
    [][\A u \in UserIds, tier \in SpecTiers :
          ( \/ CreateSubscription(u, tier, "customer")
            \/ CreateSubscription(u, tier, "payment")
            \/ UpdateSubscription(u, tier, "stripe") )
          => /\ stripe' = stripe
             /\ DOMAIN specialists' = DOMAIN specialists
             /\ \A s \in DOMAIN specialists :
                   BillingFields(specialists'[s]) = BillingFields(specialists[s])
             /\ \A s \in DOMAIN specialists \ {u} :
                   specialists'[s] = specialists[s] ]_vars

\* A createSubscription of a restricted account has failed after the customer
\* was created at the processor: the account has a customer id, no
\* subscription, and is restricted as before.
C29_Witness ==
    \E s \in DOMAIN specialists :
       /\ specialists[s].stripe_customer_id # NullId
       /\ specialists[s].stripe_subscription_id = NullId
       /\ specialists[s].is_restricted
       /\ specialists[s].restriction_reason = "client_limit_exceeded"
       /\ stripe = <<>>


\* C30: an automatic archive (reason auto_archived_billing_limit) deactivates
\* a client only while its owner's active clients outnumber the limit of the
\* tier: once the overage is resolved, the archive tasks scheduled earlier
\* deactivate nobody.
C30_ResolvedOverageStopsArchive ==
    [][\A c \in DOMAIN clients :
          ( /\ clients[c].is_active
            /\ ~clients'[c].is_active
            /\ clients'[c].archived_reason = "auto_archived_billing_limit" )
          => LET s == clients[c].specialist_id
             IN  /\ ClientLimitOf(specialists[s].billing_tier_id) # Unlimited
                 /\ ActiveCount(clients, s)
                       > ClientLimitOf(specialists[s].billing_tier_id) ]_vars


\* C31: in every state an account that is not restricted has no restriction
\* reason, and a restricted account has one of the reasons
\* client_limit_exceeded, subscription_canceled and payment_failed.
C31_FlagAndReasonAgree ==
    \A s \in DOMAIN specialists :
       IF specialists[s].is_restricted
       THEN specialists[s].restriction_reason \in
               {"client_limit_exceeded", "subscription_canceled", "payment_failed"}
       ELSE specialists[s].restriction_reason = NullText

\* A failed payment has restricted an account that holds a subscription.
C31_Witness ==
    \E s \in DOMAIN specialists :
       /\ specialists[s].is_restricted
       /\ specialists[s].restriction_reason = "payment_failed"
       /\ specialists[s].stripe_subscription_id # NullId


\* C32: in every state each client has at most one pending archive_client
\* task.
C32_OnePendingArchiveTaskPerClient ==
    \A t, u \in DOMAIN scheduled_tasks :
       ( /\ scheduled_tasks[t].task_type = "archive_client"
         /\ scheduled_tasks[u].task_type = "archive_client"
         /\ scheduled_tasks[t].status = "pending"
         /\ scheduled_tasks[u].status = "pending"
         /\ scheduled_tasks[t].client_id = scheduled_tasks[u].client_id )
       => t = u


\* C33: no step takes an invoice from paid to overdue, whatever the order of
\* the steps of checkOverdueInvoices and the payment-succeeded webhooks.
C33_PaidInvoiceNeverOverdue ==
    [][\A i \in DOMAIN invoices :
          invoices[i].status = "paid" => invoices'[i].status # "overdue"]_vars


\* C34: once the subscribe call for a subscription is over and the
\* subscription-created event for it has been handled, in either order, the
\* account carries the subscription's status and end of trial and is not
\* restricted (no payment failure having been reported).
C34_CreatedSubscriptionIsReflected ==
    \A k \in DOMAIN stripe :
       ( /\ \A r \in DOMAIN requests :
               ~(requests[r].pc = "createSubscription" /\ requests[r].id = k)
         /\ \E e \in DOMAIN billing_events :
               billing_events[e].event_type = "customer.subscription.created"
         /\ \A e \in DOMAIN billing_events :
               billing_events[e].event_type = "customer.subscription.created" )
       => LET s == specialists[stripe[k].owner]
          IN  /\ s.subscription_status = stripe[k].status
              /\ s.trial_ends_at = stripe[k].trial_end
              /\ ~s.is_restricted


\* C35: a webhook call whose delivery was verified and whose handler has run
\* is answered 200 with {received: true}, whatever the kind of the event.
C35_VerifiedDeliveryIsAcknowledged ==
    LET call == requests[WebhookSlot]
    IN  (call.signature /\ call.handled) => call.status = 200


\* The step leaves what belongs to accounts other than u as it was: their
\* clients, their client_count and their restriction flag.
OthersUntouched(u) ==
    /\ DOMAIN clients' = DOMAIN clients
    /\ \A c \in DOMAIN clients :
          clients[c].specialist_id # u => clients'[c] = clients[c]
    /\ \A v \in DOMAIN specialists \ {u} :
          /\ specialists'[v].client_count = specialists[v].client_count
          /\ specialists'[v].is_restricted = specialists[v].is_restricted

\* C36: a call of the archive-clients route by account u, and the run of an
\* archive_client task of account u, change no client, client_count or
\* restriction flag of another account.
C36_ArchiveTouchesOwnAccountOnly ==
    [][ /\ \A u \in DOMAIN specialists, ids \in SUBSET ClientIds :
             ArchiveClientsRoute(u, ids) => OthersUntouched(u)
        /\ \A w \in SpecSweeps :
             ( /\ ExecuteTaskRun(w)
               /\ Head(sweeps[w].batch).task_type = "archive_client" )
             => OthersUntouched(Head(sweeps[w].batch).specialist_id) ]_vars

\* Account 1 has archived a client through the route, and a task of one
\* account that named a client of the other has run and left it active.
C36_Witness ==
    /\ \E c \in DOMAIN clients :
          clients[c].is_archived /\ clients[c].archived_reason = "manual_archive"
    /\ \E t \in DOMAIN scheduled_tasks :
          LET task == scheduled_tasks[t]
          IN  /\ task.task_type = "archive_client"
              /\ task.status = "completed"
              /\ task.client_id \in DOMAIN clients
              /\ clients[task.client_id].specialist_id # task.specialist_id
              /\ clients[task.client_id].is_active


\* C37: no step removes an audit row that records the creation or the
\* deletion of a subscription, and a row that a step removes is older than
\* the retention period of one year.
C37_CleanupKeepsSubscriptionAudit ==
    [][\A e \in DOMAIN billing_events :
          /\ billing_events[e].event_type \in
                {"customer.subscription.created", "customer.subscription.deleted"}
             => e \in DOMAIN billing_events'
          /\ e \notin DOMAIN billing_events'
             => billing_events[e].created_at < now - EventRetentionDays]_vars


\* C38: when stop() returns, no cron job that a start() of this runner
\* scheduled is still scheduled, and the job map is empty.
C38_StopLeavesNothingScheduled ==
    [][Stop => (runner'.scheduled = {} /\ runner'.tasks = <<>>)]_vars


\* The refresh token tok is stored for its user, and is revoked or expired.
RevokedOrExpired(tok) ==
    \E i \in DOMAIN accounts.sessions.refresh_tokens :
       LET row == accounts.sessions.refresh_tokens[i]
       IN  /\ row.token = tok
           /\ (row.revoked_at # NullTime \/ row.expires_at <= now)

\* C39: a logout of user u leaves every refresh token stored for u revoked,
\* a revoked token stays revoked, and a refresh with a revoked or expired
\* token is answered 401.
C39_LoggedOutTokensAreRejected ==
    [][ /\ \A u \in UserIds :
             Logout(u, TRUE) =>
                \A i \in DOMAIN accounts.sessions.refresh_tokens :
                   accounts.sessions.refresh_tokens[i].user_id = u
                   => accounts'.sessions.refresh_tokens[i].revoked_at # NullTime
        /\ \A i \in DOMAIN accounts.sessions.refresh_tokens :
             accounts.sessions.refresh_tokens[i].revoked_at # NullTime
             => /\ i \in DOMAIN accounts'.sessions.refresh_tokens
                /\ accounts'.sessions.refresh_tokens[i] =
                      accounts.sessions.refresh_tokens[i]
        /\ \A tok \in PresentedTokens :
             (Refresh(tok) /\ RevokedOrExpired(tok))
             => accounts'.sessions.last.status = 401 ]_vars

\* A user who logged in twice has logged out, and a refresh with the older
\* of the two tokens, not yet expired, has been answered 401.
C39_Witness ==
    LET se == accounts.sessions
    IN  /\ se.last.op = "refresh"
        /\ se.last.status = 401
        /\ se.last.token.signed
        /\ \E i, j \in DOMAIN se.refresh_tokens :
              /\ i < j
              /\ se.refresh_tokens[i].user_id = se.refresh_tokens[j].user_id
              /\ se.refresh_tokens[i].token = se.last.token
              /\ se.refresh_tokens[i].revoked_at # NullTime
              /\ se.refresh_tokens[j].revoked_at # NullTime
              /\ se.refresh_tokens[i].expires_at > now

====
